---- MODULE Spec2Model ----
(***************************************************************************)
(* A model of the blixt data plane: the configuration RPC service          *)
(* (dataplane/api-server/src/server.rs), the TC classifiers                *)
(* (dataplane/ebpf/src/ingress, dataplane/ebpf/src/egress) and the three   *)
(* BPF hash maps BACKENDS, GATEWAY_INDEXES and LB_CONNECTIONS they share.  *)
(*                                                                         *)
(* Every BPF map operation (get, insert, remove) is one atomic step; the   *)
(* computation a handler or a classifier does on its own locals and on its *)
(* own frame between two map operations is part of the step of the map     *)
(* operation that precedes it.  A value obtained by get is a snapshot.     *)
(* The target is little endian (bpfel): to_be / from_be swap bytes, and a  *)
(* header field holds the raw value a little-endian load of it returns.    *)
(***************************************************************************)
EXTENDS Integers, Sequences, FiniteSets, TLC

(***************************************************************************)
(* Bounds of the model.                                                    *)
(***************************************************************************)
\* RPC calls issued in one run
MaxRpcs == 3
\* frames handed to the classifiers in one run
MaxPkts == 2
\* RPC calls and frames in one run
MaxOps == 4
\* headers fed to the bare TCP state machine (specification SpecSM)
MaxHdrs == 4

(***************************************************************************)
(* Program constants.                                                      *)
(***************************************************************************)
BACKENDS_ARRAY_CAPACITY == 128
BPF_MAPS_CAPACITY == 128
TC_ACT_OK == 0
TC_ACT_PIPE == 3
TC_ACT_REDIRECT == 7
\* EthHdr::LEN + offset_of!(Ipv4Hdr, check)
IP_CSUM_OFF == 24
\* EthHdr::LEN + offset_of!(Ipv4Hdr, src_addr)
IP_SRC_OFF == 26
\* EthHdr::LEN + offset_of!(Ipv4Hdr, dst_addr)
IP_DST_OFF == 30
\* EthHdr::LEN + Ipv4Hdr::LEN + offset_of!(TcpHdr, source)
TCP_SPORT_OFF == 34
\* EthHdr::LEN + Ipv4Hdr::LEN + offset_of!(TcpHdr, dest)
TCP_DPORT_OFF == 36
\* EthHdr::LEN + Ipv4Hdr::LEN + 13: the byte of the TcpHdr flag bits
TCP_FLAGS_OFF == 47
\* EthHdr::LEN + Ipv4Hdr::LEN + offset_of!(TcpHdr, check)
TCP_CSUM_OFF == 50

\* Option::None of a TCPState; an Option of a number or of a struct is a
\* sequence of length 0 or 1, and a local that is not yet assigned is Nil
None == "None"
Nil == [nil |-> TRUE]

(***************************************************************************)
(* Byte order: u16::to_be / u16::from_be and u32::to_be / u32::from_be on  *)
(* a little-endian target.                                                 *)
(***************************************************************************)
Swap16(x) == (x % 256) * 256 + (x \div 256)
Swap32(x) == Swap16(x % 65536) * 65536 + Swap16(x \div 65536)
AsU16(x) == x % 65536

(***************************************************************************)
(* common::TCPState and the bits of a TCP header the tracker reads.        *)
(***************************************************************************)
TCPState == {"Established", "FinWait1", "FinWait2", "Closing", "TimeWait", "Closed"}
TCPStateDefault == "Established"

FIN == 1
SYN == 2
RST == 4
ACK == 16
Bit(flags, b) == (flags \div b) % 2
fin(flags) == Bit(flags, FIN)
rst(flags) == Bit(flags, RST)
ack(flags) == Bit(flags, ACK)

\* A plausible slip: the FIN test of FinWait1 placed before the FIN+ACK test.
process_tcp_state_transition_FinFirst(flags, state) ==
    LET f == fin(flags) = 1
        a == ack(flags) = 1
        to(s) == [state |-> s, transitioned |-> TRUE]
        stay == [state |-> state, transitioned |-> FALSE]
    IN CASE state = "Established" -> IF f THEN to("FinWait1") ELSE stay
         [] state = "FinWait1" ->
                IF f THEN to("Closing")
                ELSE IF f /\ a THEN to("TimeWait")
                ELSE IF a THEN to("FinWait2")
                ELSE stay
         [] state = "FinWait2" -> IF a THEN to("TimeWait") ELSE stay
         [] state = "Closing" -> IF a THEN to("TimeWait") ELSE stay
         [] state = "TimeWait" -> IF a THEN to("Closed") ELSE stay
         [] OTHER -> stay

\* A plausible slip: Closed falls through to the TimeWait arm.
process_tcp_state_transition_Reopen(flags, state) ==
    LET f == fin(flags) = 1
        a == ack(flags) = 1
        to(s) == [state |-> s, transitioned |-> TRUE]
        stay == [state |-> state, transitioned |-> FALSE]
    IN CASE state = "Established" -> IF f THEN to("FinWait1") ELSE stay
         [] state = "FinWait1" ->
                IF f /\ a THEN to("TimeWait")
                ELSE IF f THEN to("Closing")
                ELSE IF a THEN to("FinWait2")
                ELSE stay
         [] state = "FinWait2" -> IF a THEN to("TimeWait") ELSE stay
         [] state = "Closing" -> IF a THEN to("TimeWait") ELSE stay
         [] state = "TimeWait" -> IF a THEN to("Closed") ELSE stay
         [] OTHER -> IF f THEN to("FinWait1") ELSE stay

\* utils.rs process_tcp_state_transition: the new state and the returned bool.
process_tcp_state_transition(flags, state) ==
    LET f == fin(flags) = 1
        a == ack(flags) = 1
        to(s) == [state |-> s, transitioned |-> TRUE]
        stay == [state |-> state, transitioned |-> FALSE]
    IN CASE state = "Established" -> IF f THEN to("FinWait1") ELSE stay
         [] state = "FinWait1" ->
                IF f /\ a THEN to("TimeWait")
                ELSE IF f THEN to("Closing")
                ELSE IF a THEN to("FinWait2")
                ELSE stay
         [] state = "FinWait2" -> IF a THEN to("TimeWait") ELSE stay
         [] state = "Closing" -> IF a THEN to("TimeWait") ELSE stay
         [] state = "TimeWait" -> IF a THEN to("Closed") ELSE stay
         [] OTHER -> stay

(***************************************************************************)
(* Internet checksum arithmetic of the kernel helpers.                     *)
(***************************************************************************)
RECURSIVE Fold(_)
Fold(x) == IF x > 65535 THEN Fold((x % 65536) + (x \div 65536)) ELSE x
Not16(x) == 65535 - x
\* the 16-bit words of a value of `size` bytes (2 or 4)
WordSum(v, size) == IF size = 4 THEN (v % 65536) + ((v \div 65536) % 65536) ELSE v % 65536
NotWordSum(v, size) ==
    IF size = 4 THEN Not16(v % 65536) + Not16((v \div 65536) % 65536) ELSE Not16(v % 65536)
\* csum_replace2 / csum_replace4: check' = ~(~check + ~from + to)
CsumReplace(check, from, to, size) ==
    Not16(Fold(Not16(check) + NotWordSum(from, size) + WordSum(to, size)))


(***************************************************************************)
(* The inputs of the model: VIPs, targets, clients.                        *)
(***************************************************************************)
\* 10.0.0.1:80 and 10.0.0.2:80
V1 == [ip |-> 167772161, port |-> 80]
V2 == [ip |-> 167772162, port |-> 80]
Vips == {V1, V2}

\* 10.0.1.1:8080 with an interface index, 10.0.1.2:8080 without one, and
\* 10.0.1.1:8080 with an interface index that does not fit 16 bits
T1 == [daddr |-> 167772417, dport |-> 8080, ifindex |-> <<2>>]
T2 == [daddr |-> 167772418, dport |-> 8080, ifindex |-> <<>>]
T3 == [daddr |-> 167772417, dport |-> 8080, ifindex |-> <<65538>>]
TargetLists == {<<T1, T2>>, <<T3>>}
Requests == {[vip |-> <<v>>, targets |-> l] : v \in {V1}, l \in TargetLists}

Handlers == {1, 2}
Cpus == {1}

(***************************************************************************)
(* common: Backend, BackendList.                                           *)
(***************************************************************************)
\* Backend::default()
BackendDefault == [daddr |-> 0, dport |-> 0, ifindex |-> 0]
\* A plausible slip: the slot after the one the cursor names.
Slot_OffByOne(list, i) ==
    IF i + 1 < Len(list.backends) THEN list.backends[i + 2] ELSE BackendDefault
\* BackendList.backends[i]: the slots past the ones update filled are zero
Slot(list, i) == IF i < Len(list.backends) THEN list.backends[i + 1] ELSE BackendDefault

\* the addresses the routing table of the host has a route to
Routed == {167772417, 167772418}

\* A plausible slip: a failed route lookup falls back to interface index 0.
if_index_for_routing_ip_Default(ip_addr) ==
    IF ip_addr \in Routed
    THEN [ok |-> TRUE, ifindex |-> 3]
    ELSE [ok |-> TRUE, ifindex |-> 0]

\* netutils.rs if_index_for_routing_ip: the oif of the route to ip_addr
if_index_for_routing_ip(ip_addr) ==
    IF ip_addr \in Routed
    THEN [ok |-> TRUE, ifindex |-> 3]
    ELSE [ok |-> FALSE, ifindex |-> 0]

\* the interface index of one target (server.rs 129-143)
target_ifindex(t) ==
    IF t.ifindex # <<>> THEN [ok |-> TRUE, ifindex |-> t.ifindex[1]]
    ELSE if_index_for_routing_ip(t.daddr)

\* A plausible slip: the loop without the test of the count.
build_backends_NoLimit(targets, acc) ==
    LET stop == {k \in 1 .. Len(targets) : ~target_ifindex(targets[k]).ok}
        first == CHOOSE k \in stop : \A j \in stop : k <= j
        n == IF stop = {} THEN Len(targets) ELSE first - 1
        backends == acc \o [k \in 1 .. n |->
                              [daddr |-> targets[k].daddr, dport |-> targets[k].dport,
                               ifindex |-> AsU16(target_ifindex(targets[k]).ifindex)]]
    IN IF stop = {} THEN [status |-> "ok", backends |-> backends]
       ELSE [status |-> "Internal", backends |-> backends]

\* the loop of update over the request's targets (server.rs 123-158), `acc`
\* being the backends stored so far: the loop returns at the first target
\* whose interface index cannot be resolved or that finds the array full
build_backends(targets, acc) ==
    LET room == BACKENDS_ARRAY_CAPACITY - Len(acc)
        stop == {k \in 1 .. Len(targets) : ~target_ifindex(targets[k]).ok \/ k > room}
        first == CHOOSE k \in stop : \A j \in stop : k <= j
        n == IF stop = {} THEN Len(targets) ELSE first - 1
        backends == acc \o [k \in 1 .. n |->
                              [daddr |-> targets[k].daddr, dport |-> targets[k].dport,
                               ifindex |-> AsU16(target_ifindex(targets[k]).ifindex)]]
    IN IF stop = {} THEN [status |-> "ok", backends |-> backends]
       ELSE IF ~target_ifindex(targets[first]).ok
       THEN [status |-> "Internal", backends |-> backends]
       ELSE [status |-> "ResourceExhausted", backends |-> backends]

(***************************************************************************)
(* The BPF hash maps: insert with flags 0 (BPF_ANY) and remove.            *)
(***************************************************************************)
\* A plausible slip: a map without capacity.
MapInsert_Unbounded(m, k, v) == [ok |-> TRUE, map |-> (k :> v) @@ m]

MapInsert(m, k, v) ==
    IF k \in DOMAIN m \/ Cardinality(DOMAIN m) < BPF_MAPS_CAPACITY
    THEN [ok |-> TRUE, map |-> (k :> v) @@ m]
    ELSE [ok |-> FALSE, map |-> m]
MapRemove(m, k) ==
    IF k \in DOMAIN m
    THEN [ok |-> TRUE, map |-> [x \in DOMAIN m \ {k} |-> m[x]]]
    ELSE [ok |-> FALSE, map |-> m]
EmptyMap == [x \in {} |-> 0]
\* a map syscall of remove: with `fault` it fails with EPERM and leaves the map
SysRemove(m, k, fault) ==
    IF fault THEN [ok |-> FALSE, map |-> m, errno |-> "EPERM"]
    ELSE IF k \in DOMAIN m THEN [ok |-> TRUE, map |-> MapRemove(m, k).map, errno |-> "none"]
    ELSE [ok |-> FALSE, map |-> m, errno |-> "ENOENT"]

\* A plausible slip: the missing-key error is reported like any other error.
delete_status_Strict(removed) == IF removed THEN "ok" ELSE "Internal"

\* delete (server.rs 187-197): the status of the RPC from the result of remove.
\* The map errors of the model are failed map syscalls: the
\* bpf_map_delete_elem of a missing key (ENOENT) and a syscall that fails for
\* another reason (EPERM).  The handler takes the text of the error to hold
\* "syscall failed with code -1" (server.rs 191): the text names the value the
\* syscall returned, which is -1 for every errno.
delete_status(removed) == IF removed THEN "ok" ELSE "ok_did_not_exist"
DeleteSucceeded(status) == status \in {"ok", "ok_did_not_exist"}

(***************************************************************************)
(* State.                                                                  *)
(***************************************************************************)
VARIABLES
    BACKENDS,          \* BackendKey -> BackendList
    GATEWAY_INDEXES,   \* BackendKey -> u16
    LB_CONNECTIONS,    \* ClientKey -> LoadBalancerMapping
    mutex,             \* the holder of each tokio Mutex of BackendService
    rpc,               \* the RPC handler tasks
    cpu,               \* the classifier invocations
    ev,                \* the operation that completed in the last step
    lastRpc,           \* per VIP, the outcome of the RPC that completed last
    nRpcs,             \* RPC calls issued so far
    nPkts,             \* frames handed to the classifiers so far
    sm,                \* the bare state machine: its TCPState
    hdrs,              \* the bare state machine: the header flags fed so far
    smret,             \* the bare state machine: the state before the last header
                       \* and the bool returned for it
    lim,               \* the bounds of the run: RPC calls, frames, both
    loader,            \* the startup of the loader: its position, the pins, and
                       \* what it loaded, attached and opened
    tls                \* one call of setup_tls: its arguments, the files, the Result

vars == <<BACKENDS, GATEWAY_INDEXES, LB_CONNECTIONS, mutex, rpc, cpu, ev, lastRpc, nRpcs, nPkts,
          sm, hdrs, smret, lim, loader, tls>>
smvars == <<sm, hdrs, smret>>
bootvars == <<loader, tls>>
maps == <<BACKENDS, GATEWAY_INDEXES, LB_CONNECTIONS>>

Idle == [pc |-> "idle"]
\* the loader has handed the maps to the RPC service and plays no part
LoaderOff == [pc |-> "off"]
\* setup_tls is not under study
TlsOff == [pc |-> "off"]
NoEvent == [kind |-> "none"]
Free == 0

\* the handler tasks are interchangeable: a request goes to the first idle one
FirstIdle(h) == \A g \in Handlers : g < h => rpc[g].pc # "idle"
Budget == nRpcs + nPkts < lim.ops
AllIdle == (\A h \in Handlers : rpc[h].pc = "idle") /\ (\A c \in DOMAIN cpu : cpu[c].pc = "idle")
\* a task that starts ends the isolation of every task in flight
Disturbed(f) == [q \in DOMAIN f |-> IF f[q].pc = "idle" THEN f[q] ELSE [f[q] EXCEPT !.iso = FALSE]]
Snapshot == [B |-> BACKENDS, G |-> GATEWAY_INDEXES, C |-> LB_CONNECTIONS]
\* A plausible slip: the guard of backends_map is leaked when remove returns.
Released_BackendsKept(h) ==
    [m \in DOMAIN mutex |-> IF mutex[m] = h /\ m # "backends_map" THEN Free ELSE mutex[m]]
\* the guards of handler h are dropped when its function returns
Released(h) == [m \in DOMAIN mutex |-> IF mutex[m] = h THEN Free ELSE mutex[m]]

\* BackendService::new on freshly created maps; `bounds` bounds the run and
\* says whether map syscalls of remove may fail for a reason other than a
\* missing key, and `vips` are the VIPs the run talks about
Start(bounds, vips) ==
    /\ lim = bounds
    /\ BACKENDS = EmptyMap
    /\ GATEWAY_INDEXES = EmptyMap
    /\ LB_CONNECTIONS = EmptyMap
    /\ mutex = [backends_map |-> Free, gateway_indexes_map |-> Free, tcp_conns_map |-> Free]
    /\ rpc = [h \in Handlers |-> Idle]
    /\ cpu = [c \in Cpus |-> Idle]
    /\ ev = NoEvent
    /\ lastRpc = [v \in vips |-> "none"]
    /\ nRpcs = 0
    /\ nPkts = 0
    /\ sm = TCPStateDefault
    /\ hdrs = <<>>
    /\ smret = [from |-> TCPStateDefault, transitioned |-> FALSE]
    /\ loader = LoaderOff
    /\ tls = TlsOff

Init == Start([rpcs |-> MaxRpcs, pkts |-> MaxPkts, ops |-> MaxOps, faults |-> {FALSE}], Vips)

(***************************************************************************)
(* BackendService::update (server.rs 111-175) with insert_and_reset_index  *)
(* and insert (server.rs 42-53).                                           *)
(***************************************************************************)
\* the handler returns `status` to the caller; `task` are its locals
RpcReturnWith(h, task, status) ==
    /\ rpc' = [rpc EXCEPT ![h] = Idle]
    /\ mutex' = Released(h)
    /\ ev' = [kind |-> rpc[h].op, task |-> task, status |-> status]
    /\ lastRpc' = [lastRpc EXCEPT ![rpc[h].key] =
                     IF rpc[h].op = "update"
                     THEN (IF status = "ok" THEN "update_ok" ELSE "update_err")
                     ELSE (IF DeleteSucceeded(status) THEN "delete_ok" ELSE "delete_err")]
RpcReturn(h, status) == RpcReturnWith(h, rpc[h], status)
\* remove returns the error of a failed map syscall (the `?` of server.rs 57-83)
RemoveFailed(h, errno) == RpcReturnWith(h, [rpc[h] EXCEPT !.errno = errno], delete_status(FALSE))

\* the request is received, the BackendList is built (server.rs 111-163)
UpdateStart(h, req) ==
    /\ rpc[h].pc = "idle"
    /\ FirstIdle(h)
    /\ nRpcs < lim.rpcs
    /\ Budget
    /\ nRpcs' = nRpcs + 1
    /\ cpu' = Disturbed(cpu)
    /\ LET b == build_backends(req.targets, <<>>)
           task == [pc |-> "insert", op |-> "update",
                    key |-> IF req.vip = <<>> THEN Nil ELSE req.vip[1],
                    targets |-> req.targets,
                    list |-> [backends |-> b.backends, backends_len |-> Len(b.backends)],
                    at_capacity |-> /\ req.vip # <<>>
                                    /\ req.vip[1] \notin DOMAIN BACKENDS
                                    /\ Cardinality(DOMAIN BACKENDS) = BPF_MAPS_CAPACITY,
                    iso |-> AllIdle]
       IN IF req.vip = <<>>
          THEN /\ ev' = [kind |-> "update", task |-> [task EXCEPT !.pc = "idle"],
                         status |-> "InvalidArgument"]
               /\ rpc' = Disturbed(rpc)
               /\ UNCHANGED lastRpc
          ELSE IF b.status # "ok"
          THEN /\ ev' = [kind |-> "update", task |-> [task EXCEPT !.pc = "idle"],
                         status |-> b.status]
               /\ rpc' = Disturbed(rpc)
               /\ lastRpc' = [lastRpc EXCEPT ![task.key] = "update_err"]
          ELSE /\ ev' = NoEvent
               /\ rpc' = [Disturbed(rpc) EXCEPT ![h] = task]
               /\ UNCHANGED lastRpc
    /\ UNCHANGED <<lim, bootvars, smvars, maps, mutex, nPkts>>

\* insert: backends_map.lock().await, BACKENDS.insert(key, bks, 0)
UpdateInsert(h) ==
    /\ rpc[h].pc = "insert"
    /\ mutex.backends_map = Free
    /\ LET r == MapInsert(BACKENDS, rpc[h].key, rpc[h].list)
       IN /\ BACKENDS' = r.map
          /\ IF r.ok
             THEN /\ rpc' = [rpc EXCEPT ![h].pc = "reset_index"]
                  /\ ev' = NoEvent
                  /\ UNCHANGED <<mutex, lastRpc>>
             ELSE RpcReturn(h, "Internal")
    /\ UNCHANGED <<lim, bootvars, smvars, GATEWAY_INDEXES, LB_CONNECTIONS, cpu, nRpcs, nPkts>>

\* insert_and_reset_index: gateway_indexes_map.lock().await,
\* GATEWAY_INDEXES.insert(key, 0, 0), and the reply of update
UpdateResetIndex(h) ==
    /\ rpc[h].pc = "reset_index"
    /\ mutex.gateway_indexes_map = Free
    /\ LET r == MapInsert(GATEWAY_INDEXES, rpc[h].key, 0)
       IN /\ GATEWAY_INDEXES' = r.map
          /\ RpcReturn(h, IF r.ok THEN "ok" ELSE "Internal")
    /\ UNCHANGED <<lim, bootvars, smvars, BACKENDS, LB_CONNECTIONS, cpu, nRpcs, nPkts>>

(***************************************************************************)
(* BackendService::delete (server.rs 177-198) with remove (server.rs       *)
(* 55-90).  The guards of remove live until remove returns.                *)
(***************************************************************************)
DeleteStart(h, vip) ==
    /\ rpc[h].pc = "idle"
    /\ FirstIdle(h)
    /\ nRpcs < lim.rpcs
    /\ Budget
    /\ nRpcs' = nRpcs + 1
    /\ cpu' = Disturbed(cpu)
    /\ rpc' = [Disturbed(rpc) EXCEPT ![h] =
                 [pc |-> "remove_backends", op |-> "delete", key |-> vip,
                  todo |-> {}, pre |-> Snapshot, errno |-> "none",
                  chained |-> IF ev.kind = "delete" /\ ev.task.key = vip /\ ev.task.iso
                              THEN ev.status ELSE "no",
                  iso |-> AllIdle]]
    /\ ev' = NoEvent
    /\ UNCHANGED <<lim, bootvars, smvars, maps, mutex, lastRpc, nPkts>>

\* A plausible slip: the guard of backends_map is a temporary that is dropped
\* at the end of the statement, self.backends_map.lock().await.remove(&key)?
DeleteBackends_GuardDropped(h) ==
    /\ rpc[h].pc = "remove_backends"
    /\ mutex.backends_map = Free
    /\ \E fault \in lim.faults :
         LET r == SysRemove(BACKENDS, rpc[h].key, fault)
         IN /\ BACKENDS' = r.map
            /\ IF r.ok
               THEN /\ rpc' = [rpc EXCEPT ![h].pc = "remove_index"]
                    /\ ev' = NoEvent
                    /\ UNCHANGED <<mutex, lastRpc>>
               ELSE RemoveFailed(h, r.errno)
    /\ UNCHANGED <<lim, bootvars, smvars, GATEWAY_INDEXES, LB_CONNECTIONS, cpu, nRpcs, nPkts>>

\* backends_map.lock().await; backends_map.remove(&key)?
DeleteBackends(h) ==
    /\ rpc[h].pc = "remove_backends"
    /\ mutex.backends_map = Free
    /\ \E fault \in lim.faults :
         LET r == SysRemove(BACKENDS, rpc[h].key, fault)
         IN /\ BACKENDS' = r.map
            /\ IF r.ok
               THEN /\ rpc' = [rpc EXCEPT ![h].pc = "remove_index"]
                    /\ mutex' = [mutex EXCEPT !.backends_map = h]
                    /\ ev' = NoEvent
                    /\ UNCHANGED lastRpc
               ELSE RemoveFailed(h, r.errno)
    /\ UNCHANGED <<lim, bootvars, smvars, GATEWAY_INDEXES, LB_CONNECTIONS, cpu, nRpcs, nPkts>>

\* gateway_indexes_map.lock().await; gateway_indexes_map.remove(&key)?
DeleteIndex(h) ==
    /\ rpc[h].pc = "remove_index"
    /\ mutex.gateway_indexes_map = Free
    /\ \E fault \in lim.faults :
         LET r == SysRemove(GATEWAY_INDEXES, rpc[h].key, fault)
         IN /\ GATEWAY_INDEXES' = r.map
            /\ IF r.ok
               THEN /\ rpc' = [rpc EXCEPT ![h].pc = "scan"]
                    /\ mutex' = [mutex EXCEPT !.gateway_indexes_map = h]
                    /\ ev' = NoEvent
                    /\ UNCHANGED lastRpc
               ELSE RemoveFailed(h, r.errno)
    /\ UNCHANGED <<lim, bootvars, smvars, BACKENDS, LB_CONNECTIONS, cpu, nRpcs, nPkts>>

\* tcp_conns_map.lock().await; tcp_conns_map.iter().collect(): the entries of
\* the collected Vec whose backend_key is the key are the ones to remove
DeleteScan(h) ==
    /\ rpc[h].pc = "scan"
    /\ mutex.tcp_conns_map = Free
    /\ LET todo == {ck \in DOMAIN LB_CONNECTIONS : LB_CONNECTIONS[ck].backend_key = rpc[h].key}
       IN IF todo = {}
          THEN RpcReturn(h, delete_status(TRUE))
          ELSE /\ rpc' = [rpc EXCEPT ![h].pc = "purge", ![h].todo = todo]
               /\ mutex' = [mutex EXCEPT !.tcp_conns_map = h]
               /\ ev' = NoEvent
               /\ UNCHANGED lastRpc
    /\ UNCHANGED <<lim, bootvars, smvars, maps, cpu, nRpcs, nPkts>>

\* one round of the loop over the collected Vec: tcp_conns_map.remove(&client_key)?
DeletePurge(h) ==
    /\ rpc[h].pc = "purge"
    /\ \E ck \in rpc[h].todo, fault \in lim.faults :
         LET r == SysRemove(LB_CONNECTIONS, ck, fault)
         IN /\ LB_CONNECTIONS' = r.map
            /\ IF ~r.ok THEN RemoveFailed(h, r.errno)
               ELSE IF rpc[h].todo = {ck} THEN RpcReturn(h, delete_status(TRUE))
               ELSE /\ rpc' = [rpc EXCEPT ![h].todo = rpc[h].todo \ {ck}]
                    /\ ev' = NoEvent
                    /\ UNCHANGED <<mutex, lastRpc>>
    /\ UNCHANGED <<lim, bootvars, smvars, BACKENDS, GATEWAY_INDEXES, cpu, nRpcs, nPkts>>


(***************************************************************************)
(* Frames.  A frame is a function from the byte offset of a header field   *)
(* to the raw value of the field; the fields at IP_SRC_OFF and IP_DST_OFF  *)
(* are four bytes wide, the one at TCP_FLAGS_OFF one byte, the others two. *)
(***************************************************************************)
\* the last two bytes of the destination MAC address
ETH_DST_OFF == 4
IpCsum(f) ==
    Not16(Fold(f[14] + f[16] + f[18] + f[20] + f[22]
               + WordSum(f[IP_SRC_OFF], 4) + WordSum(f[IP_DST_OFF], 4)))
\* pseudo header (addresses, protocol 6, length 20) and the TCP header
TcpCsum(f) ==
    Not16(Fold(WordSum(f[IP_SRC_OFF], 4) + WordSum(f[IP_DST_OFF], 4) + 1536 + 5120
               + f[TCP_SPORT_OFF] + f[TCP_DPORT_OFF] + (f[TCP_FLAGS_OFF] * 256 + 80)))
TcpFrame(src, sport, dst, dport, flags) ==
    LET f == (ETH_DST_OFF :> 514) @@ (14 :> 69) @@ (16 :> 10240) @@ (18 :> 0) @@ (20 :> 64)
             @@ (22 :> 1600) @@ (IP_CSUM_OFF :> 0)
             @@ (IP_SRC_OFF :> Swap32(src)) @@ (IP_DST_OFF :> Swap32(dst))
             @@ (TCP_SPORT_OFF :> Swap16(sport)) @@ (TCP_DPORT_OFF :> Swap16(dport))
             @@ (TCP_FLAGS_OFF :> flags) @@ (TCP_CSUM_OFF :> 0)
    IN [f EXCEPT ![IP_CSUM_OFF] = IpCsum(f), ![TCP_CSUM_OFF] = TcpCsum(f)]

\* EthHdr::LEN and EthHdr::LEN + Ipv4Hdr::LEN: where the IPv4 header and the
\* header after it start
IP_HDR_OFF == 14
L4_HDR_OFF == 34
\* utils.rs ptr_at: Ok when the frame holds the whole header that starts at
\* `offset`; a frame of the model is cut, if at all, between two headers
ptr_at(frame, offset) == offset \in DOMAIN frame
\* a frame that ends after its IPv4 header
ShortFrame(src, dst) ==
    LET f == (ETH_DST_OFF :> 514) @@ (14 :> 69) @@ (16 :> 5120) @@ (18 :> 0) @@ (20 :> 64)
             @@ (22 :> 1600) @@ (IP_CSUM_OFF :> 0)
             @@ (IP_SRC_OFF :> Swap32(src)) @@ (IP_DST_OFF :> Swap32(dst))
    IN [f EXCEPT ![IP_CSUM_OFF] = IpCsum(f)]

\* 10.0.2.1:40000 and 10.0.2.2:40001
CL1 == [ip |-> 167772673, port |-> 40000]
CL2 == [ip |-> 167772674, port |-> 40001]
Clients == {CL1, CL2}
FlagSets == {SYN, ACK, FIN, FIN + ACK, RST, RST + ACK, RST + FIN}
IngressTcpFrames ==
    {TcpFrame(c.ip, c.port, v.ip, v.port, fl) : c \in Clients, v \in {V1}, fl \in FlagSets}
\* return traffic of the backends 10.0.1.1:8080 and 10.0.1.2:8080
EgressTcpFrames ==
    {TcpFrame(167772417, 8080, c.ip, c.port, fl) : c \in Clients, fl \in FlagSets}
\* which helper call of a rewrite fails: none, or the n-th one
HelperFailures == 0 .. 5

(***************************************************************************)
(* The kernel helpers and the rewrite functions of utils.rs.               *)
(***************************************************************************)
bpf_l4_csum_replace(frame, off, from, to, size, fails) ==
    IF fails THEN [ret |-> -1, frame |-> frame]
    ELSE [ret |-> 0, frame |-> [frame EXCEPT ![off] = CsumReplace(frame[off], from, to, size)]]
bpf_l3_csum_replace(frame, off, from, to, size, fails) ==
    IF fails THEN [ret |-> -1, frame |-> frame]
    ELSE [ret |-> 0, frame |-> [frame EXCEPT ![off] = CsumReplace(frame[off], from, to, size)]]
bpf_skb_store_bytes(frame, off, val, fails) ==
    IF fails THEN [ret |-> -1, frame |-> frame]
    ELSE [ret |-> 0, frame |-> [frame EXCEPT ![off] = val]]

\* utils.rs set_ipv4_ip_dst
set_ipv4_ip_dst(frame, l4_csum_offset, old_ip, new_dip, failAt) ==
    LET r1 == bpf_l4_csum_replace(frame, l4_csum_offset, old_ip, new_dip, 4, failAt = 1)
        r2 == bpf_l3_csum_replace(r1.frame, IP_CSUM_OFF, old_ip, new_dip, 4, failAt = 2)
        r3 == bpf_skb_store_bytes(r2.frame, IP_DST_OFF, new_dip, failAt = 3)
    IN IF r1.ret # 0 THEN r1 ELSE IF r2.ret # 0 THEN r2 ELSE r3

\* utils.rs set_ipv4_dest_port: the new port is stored at l4_csum_offset
set_ipv4_dest_port(frame, l4_csum_offset, old_port, new_port, failAt) ==
    LET r1 == bpf_l4_csum_replace(frame, l4_csum_offset, old_port, new_port, 2, failAt = 4)
        r2 == bpf_skb_store_bytes(r1.frame, l4_csum_offset, new_port, failAt = 5)
    IN IF r1.ret # 0 THEN r1 ELSE r2

\* A plausible slip: the mapping of a connection that reached Closed is stored
\* like any other transition instead of being removed.
update_tcp_conns_KeepClosed(conns, flags, client_key, lb_mapping) ==
    IF lb_mapping.tcp_state = None
    THEN [ok |-> TRUE, map |-> conns, mapping |-> lb_mapping]
    ELSE LET t == process_tcp_state_transition(flags, lb_mapping.tcp_state)
             m == [lb_mapping EXCEPT !.tcp_state = t.state]
         IN IF t.transitioned
            THEN LET r == MapInsert(conns, client_key, m)
                 IN [ok |-> r.ok, map |-> r.map, mapping |-> m]
            ELSE [ok |-> TRUE, map |-> conns, mapping |-> m]

\* A plausible slip: the mapping is stored on every packet, transition or not.
update_tcp_conns_AlwaysInsert(conns, flags, client_key, lb_mapping) ==
    IF lb_mapping.tcp_state = None
    THEN [ok |-> TRUE, map |-> conns, mapping |-> lb_mapping]
    ELSE LET t == process_tcp_state_transition(flags, lb_mapping.tcp_state)
             m == [lb_mapping EXCEPT !.tcp_state = t.state]
         IN IF t.state = "Closed"
            THEN LET r == MapRemove(conns, client_key)
                 IN [ok |-> r.ok, map |-> r.map, mapping |-> m]
            ELSE LET r == MapInsert(conns, client_key, m)
                 IN [ok |-> r.ok, map |-> r.map, mapping |-> m]

\* utils.rs update_tcp_conns: the map, the mapping as mutated, and Ok or Err
update_tcp_conns(conns, flags, client_key, lb_mapping) ==
    IF lb_mapping.tcp_state = None
    THEN [ok |-> TRUE, map |-> conns, mapping |-> lb_mapping]
    ELSE LET t == process_tcp_state_transition(flags, lb_mapping.tcp_state)
             m == [lb_mapping EXCEPT !.tcp_state = t.state]
         IN IF t.state = "Closed"
            THEN LET r == MapRemove(conns, client_key)
                 IN [ok |-> r.ok, map |-> r.map, mapping |-> m]
            ELSE IF t.transitioned
            THEN LET r == MapInsert(conns, client_key, m)
                 IN [ok |-> r.ok, map |-> r.map, mapping |-> m]
            ELSE [ok |-> TRUE, map |-> conns, mapping |-> m]

Ok(v) == [ok |-> TRUE, val |-> v]
Err(v) == [ok |-> FALSE, val |-> v]

\* the classifier invocation returns `ret`; `task` are its locals at that point
CpuReturn(c, task, ret) ==
    /\ cpu' = [cpu EXCEPT ![c] = Idle]
    /\ ev' = [kind |-> task.kind, task |-> task, ret |-> ret]

(***************************************************************************)
(* handle_tcp_ingress (ingress/tcp.rs 25-165).                             *)
(***************************************************************************)
\* LB_CONNECTIONS.get(&client_key) of handle_tcp_ingress (tcp.rs 51)
tcp_ingress_lookup(conns, client_key) ==
    IF client_key \in DOMAIN conns THEN conns[client_key] ELSE Nil

\* the frame arrives; LB_CONNECTIONS.get(&client_key) (tcp.rs 26-61)
IngressTcpStart(c, frame) ==
    /\ cpu[c].pc = "idle"
    /\ nPkts < lim.pkts
    /\ Budget
    /\ nPkts' = nPkts + 1
    /\ rpc' = Disturbed(rpc)
    /\ LET client_key == [ip |-> Swap32(frame[IP_SRC_OFF]),
                          port |-> Swap16(frame[TCP_SPORT_OFF])]
           val == tcp_ingress_lookup(LB_CONNECTIONS, client_key)
           task == [pc |-> "conns", kind |-> "ingress_tcp", frame_in |-> frame,
                    frame |-> frame, client_key |-> client_key, found |-> val,
                    backend |-> Nil, backend_key |-> Nil,
                    tcp_state |-> TCPStateDefault, new_conn |-> FALSE,
                    list |-> Nil, idx |-> -1, wrote_index |-> FALSE,
                    rewrite |-> "none", action |-> -1, iso |-> AllIdle]
       IN IF ~(ptr_at(frame, IP_HDR_OFF) /\ ptr_at(frame, L4_HDR_OFF))
          THEN /\ cpu' = Disturbed(cpu)
               /\ ev' = [kind |-> "ingress_tcp",
                         task |-> [pc |-> "idle", kind |-> "ingress_tcp", frame_in |-> frame,
                                   frame |-> frame, found |-> Nil, wrote_index |-> FALSE,
                                   rewrite |-> "none", iso |-> AllIdle],
                         ret |-> Err(TC_ACT_OK)]
          ELSE /\ cpu' = [Disturbed(cpu) EXCEPT ![c] =
                            IF val # Nil
                            THEN [task EXCEPT !.backend = val.backend,
                                              !.backend_key = val.backend_key,
                                              !.tcp_state = val.tcp_state]
                            ELSE [task EXCEPT !.pc = "backends", !.new_conn = TRUE,
                                              !.backend_key =
                                                  [ip |-> Swap32(frame[IP_DST_OFF]),
                                                   port |-> Swap16(frame[TCP_DPORT_OFF])]]]
               /\ ev' = NoEvent
    /\ UNCHANGED <<lim, bootvars, smvars, maps, mutex, lastRpc, nRpcs>>

\* BACKENDS.get(&backend_key).ok_or(TC_ACT_OK)? (tcp.rs 62)
IngressTcpBackends(c) ==
    /\ cpu[c].pc = "backends"
    /\ cpu[c].kind = "ingress_tcp"
    /\ IF cpu[c].backend_key \in DOMAIN BACKENDS
       THEN /\ cpu' = [cpu EXCEPT ![c].pc = "index",
                                  ![c].list = BACKENDS[cpu[c].backend_key]]
            /\ ev' = NoEvent
       ELSE CpuReturn(c, cpu[c], Err(TC_ACT_OK))
    /\ UNCHANGED <<lim, bootvars, smvars, maps, mutex, rpc, lastRpc, nRpcs, nPkts>>

\* A plausible slip: a missing cursor is read as the default index 0.
gateway_indexes_get_OrDefault(indexes, backend_key, err) ==
    IF backend_key \in DOMAIN indexes THEN Ok(indexes[backend_key]) ELSE Ok(0)

\* GATEWAY_INDEXES.get(&backend_key).ok_or(err) (tcp.rs 63, udp.rs 40)
gateway_indexes_get(indexes, backend_key, err) ==
    IF backend_key \in DOMAIN indexes THEN Ok(indexes[backend_key]) ELSE Err(err)

\* GATEWAY_INDEXES.get(&backend_key), the bound checks, the choice of the
\* backend and of the next index (tcp.rs 63-95)
IngressTcpIndex(c) ==
    /\ cpu[c].pc = "index"
    /\ cpu[c].kind = "ingress_tcp"
    /\ IF ~gateway_indexes_get(GATEWAY_INDEXES, cpu[c].backend_key, TC_ACT_OK).ok
       THEN CpuReturn(c, cpu[c],
                      gateway_indexes_get(GATEWAY_INDEXES, cpu[c].backend_key, TC_ACT_OK))
       ELSE LET backend_index ==
                    gateway_indexes_get(GATEWAY_INDEXES, cpu[c].backend_key, TC_ACT_OK).val
                task == [cpu[c] EXCEPT !.idx = backend_index]
            IN IF cpu[c].list.backends_len <= backend_index
               THEN CpuReturn(c, task, Ok(TC_ACT_OK))
               ELSE IF backend_index >= BACKENDS_ARRAY_CAPACITY
               THEN CpuReturn(c, task, Ok(TC_ACT_OK))
               ELSE /\ cpu' = [cpu EXCEPT ![c] =
                                 [task EXCEPT !.pc = "advance",
                                              !.backend = Slot(cpu[c].list, backend_index)]]
                    /\ ev' = NoEvent
    /\ UNCHANGED <<lim, bootvars, smvars, maps, mutex, rpc, lastRpc, nRpcs, nPkts>>

\* A plausible slip: the cursor is advanced without the wrap to 0.
next_index_NoWrap(backend_index, backends_len) == backend_index + 1

\* the next index of the round robin (tcp.rs 92-95)
next_index(backend_index, backends_len) ==
    IF backend_index + 1 >= backends_len THEN 0 ELSE backend_index + 1

\* GATEWAY_INDEXES.insert(&backend_key, &next, 0)? (tcp.rs 96-98)
IngressTcpAdvance(c) ==
    /\ cpu[c].pc = "advance"
    /\ cpu[c].kind = "ingress_tcp"
    /\ LET r == MapInsert(GATEWAY_INDEXES, cpu[c].backend_key,
                          next_index(cpu[c].idx, cpu[c].list.backends_len))
       IN /\ GATEWAY_INDEXES' = r.map
          /\ IF r.ok
             THEN /\ cpu' = [cpu EXCEPT ![c].pc = "conns", ![c].wrote_index = TRUE]
                  /\ ev' = NoEvent
             ELSE CpuReturn(c, cpu[c], Err(-1))
    /\ UNCHANGED <<lim, bootvars, smvars, BACKENDS, LB_CONNECTIONS, mutex, rpc, lastRpc, nRpcs, nPkts>>

\* update_tcp_conns, the rewrite of the frame and the redirect (tcp.rs 123-163)
IngressTcpTrack(c) ==
    \E failAt \in HelperFailures :
      LET t == cpu[c]
          flags == t.frame[TCP_FLAGS_OFF]
          lb_mapping == [backend |-> t.backend, backend_key |-> t.backend_key,
                         tcp_state |-> t.tcp_state]
          u == update_tcp_conns(LB_CONNECTIONS, flags, t.client_key, lb_mapping)
          original_daddr == t.frame_in[IP_DST_OFF]
          original_dport == t.frame_in[TCP_DPORT_OFF]
          backend_ip == Swap32(t.backend.daddr)
          backend_port == Swap16(AsU16(t.backend.dport))
          w1 == set_ipv4_ip_dst(t.frame, TCP_CSUM_OFF, original_daddr, backend_ip, failAt)
          w2 == set_ipv4_dest_port(w1.frame, TCP_CSUM_OFF, original_dport, backend_port, failAt)
          action == TC_ACT_REDIRECT
          task == [t EXCEPT !.tcp_state = u.mapping.tcp_state]
      IN /\ LB_CONNECTIONS' = u.map
         /\ IF ~u.ok THEN CpuReturn(c, task, Err(-1))
            ELSE IF w1.ret # 0
            THEN CpuReturn(c, [task EXCEPT !.frame = w1.frame, !.rewrite = "failed"],
                           Ok(TC_ACT_OK))
            ELSE IF w2.ret # 0
            THEN CpuReturn(c, [task EXCEPT !.frame = w2.frame, !.rewrite = "failed"],
                           Ok(TC_ACT_OK))
            ELSE IF t.new_conn
            THEN /\ cpu' = [cpu EXCEPT ![c] =
                              [task EXCEPT !.pc = "record", !.frame = w2.frame,
                                           !.rewrite = "ok", !.action = action]]
                 /\ ev' = NoEvent
            ELSE CpuReturn(c, [task EXCEPT !.frame = w2.frame, !.rewrite = "ok",
                                           !.action = action], Ok(action))

\* the RST test (tcp.rs 117-121), and without RST the rest up to the redirect
IngressTcpConns(c) ==
    /\ cpu[c].pc = "conns"
    /\ cpu[c].kind = "ingress_tcp"
    /\ IF rst(cpu[c].frame[TCP_FLAGS_OFF]) = 1
       THEN LET r == MapRemove(LB_CONNECTIONS, cpu[c].client_key)
            IN /\ LB_CONNECTIONS' = r.map
               /\ IF r.ok
                  THEN /\ cpu' = [cpu EXCEPT ![c].pc = "update"]
                       /\ ev' = NoEvent
                  ELSE CpuReturn(c, cpu[c], Err(-1))
       ELSE IngressTcpTrack(c)
    /\ UNCHANGED <<lim, bootvars, smvars, BACKENDS, GATEWAY_INDEXES, mutex, rpc, lastRpc, nRpcs, nPkts>>

\* after the removal on RST: update_tcp_conns and the rest up to the redirect
IngressTcpUpdate(c) ==
    /\ cpu[c].pc = "update"
    /\ cpu[c].kind = "ingress_tcp"
    /\ IngressTcpTrack(c)
    /\ UNCHANGED <<lim, bootvars, smvars, BACKENDS, GATEWAY_INDEXES, mutex, rpc, lastRpc, nRpcs, nPkts>>

\* LB_CONNECTIONS.insert(&client_key, &lb_mapping, 0)? of a new connection
\* (tcp.rs 153-161)
IngressTcpRecord(c) ==
    /\ cpu[c].pc = "record"
    /\ cpu[c].kind = "ingress_tcp"
    /\ LET lb_mapping == [backend |-> cpu[c].backend, backend_key |-> cpu[c].backend_key,
                          tcp_state |-> cpu[c].tcp_state]
           r == MapInsert(LB_CONNECTIONS, cpu[c].client_key, lb_mapping)
       IN /\ LB_CONNECTIONS' = r.map
          /\ CpuReturn(c, cpu[c], IF r.ok THEN Ok(cpu[c].action) ELSE Err(-1))
    /\ UNCHANGED <<lim, bootvars, smvars, BACKENDS, GATEWAY_INDEXES, mutex, rpc, lastRpc, nRpcs, nPkts>>


(***************************************************************************)
(* handle_tcp_egress (egress/tcp.rs 23-112).                               *)
(***************************************************************************)
\* the offset handed to bpf_l3_csum_replace (tcp.rs 73): the length of an
\* IPv4 address
EGRESS_L3_CSUM_OFF == 4
EgressHelperFailures == 0 .. 2

\* the frame arrives; LB_CONNECTIONS.get(&client_key), the source NAT and the
\* checksum helpers (tcp.rs 25-98)
EgressTcpStart(c, frame) ==
    /\ cpu[c].pc = "idle"
    /\ nPkts < lim.pkts
    /\ Budget
    /\ nPkts' = nPkts + 1
    /\ rpc' = Disturbed(rpc)
    /\ \E failAt \in EgressHelperFailures :
        LET client_key == [ip |-> Swap32(frame[IP_DST_OFF]),
                           port |-> Swap16(frame[TCP_DPORT_OFF])]
            old_src_addr == frame[IP_SRC_OFF]
            old_src_port == frame[TCP_SPORT_OFF]
            task == [pc |-> "conns", kind |-> "egress_tcp", frame_in |-> frame,
                     frame |-> frame, client_key |-> client_key, found |-> Nil,
                     backend |-> Nil, backend_key |-> Nil, tcp_state |-> None,
                     rewrite |-> "none", iso |-> AllIdle]
        IN IF ~(ptr_at(frame, IP_HDR_OFF) /\ ptr_at(frame, L4_HDR_OFF))
           THEN /\ failAt = 0
                /\ cpu' = Disturbed(cpu)
                /\ ev' = [kind |-> "egress_tcp",
                          task |-> [pc |-> "idle", kind |-> "egress_tcp", frame_in |-> frame,
                                    frame |-> frame, found |-> Nil, rewrite |-> "none",
                                    iso |-> AllIdle],
                          ret |-> Err(TC_ACT_OK)]
           ELSE IF client_key \notin DOMAIN LB_CONNECTIONS
           THEN /\ failAt = 0
                /\ cpu' = Disturbed(cpu)
                /\ ev' = [kind |-> "egress_tcp", task |-> [task EXCEPT !.pc = "idle"],
                          ret |-> Err(TC_ACT_PIPE)]
           ELSE LET lb_mapping == LB_CONNECTIONS[client_key]
                    vip_ip == Swap32(lb_mapping.backend_key.ip)
                    f1 == [frame EXCEPT ![IP_SRC_OFF] = vip_ip,
                                        ![TCP_SPORT_OFF] =
                                            Swap16(AsU16(lb_mapping.backend_key.port))]
                    w1 == bpf_l3_csum_replace(f1, EGRESS_L3_CSUM_OFF, old_src_addr,
                                              vip_ip, 4, failAt = 1)
                    w2 == bpf_l4_csum_replace(w1.frame, TCP_SPORT_OFF, old_src_port,
                                              Swap32(lb_mapping.backend_key.port), 2,
                                              failAt = 2)
                    t2 == [task EXCEPT !.found = lb_mapping,
                                       !.backend = lb_mapping.backend,
                                       !.backend_key = lb_mapping.backend_key,
                                       !.tcp_state = lb_mapping.tcp_state]
                IN IF w1.ret # 0
                   THEN /\ cpu' = Disturbed(cpu)
                        /\ ev' = [kind |-> "egress_tcp",
                                  task |-> [t2 EXCEPT !.pc = "idle", !.frame = w1.frame,
                                                      !.rewrite = "failed"],
                                  ret |-> Ok(TC_ACT_OK)]
                   ELSE IF w2.ret # 0
                   THEN /\ cpu' = Disturbed(cpu)
                        /\ ev' = [kind |-> "egress_tcp",
                                  task |-> [t2 EXCEPT !.pc = "idle", !.frame = w2.frame,
                                                      !.rewrite = "failed"],
                                  ret |-> Ok(TC_ACT_OK)]
                   ELSE /\ cpu' = [Disturbed(cpu) EXCEPT ![c] =
                                     [t2 EXCEPT !.frame = w2.frame, !.rewrite = "ok"]]
                        /\ ev' = NoEvent
    /\ UNCHANGED <<lim, bootvars, smvars, maps, mutex, lastRpc, nRpcs>>

\* update_tcp_conns on a copy of the mapping, and the verdict (tcp.rs 108-111)
EgressTcpTrack(c) ==
    LET t == cpu[c]
        mapping == [backend |-> t.backend, backend_key |-> t.backend_key,
                    tcp_state |-> t.tcp_state]
        u == update_tcp_conns(LB_CONNECTIONS, t.frame_in[TCP_FLAGS_OFF], t.client_key, mapping)
        task == [t EXCEPT !.tcp_state = u.mapping.tcp_state]
    IN /\ LB_CONNECTIONS' = u.map
       /\ CpuReturn(c, task, IF u.ok THEN Ok(TC_ACT_PIPE) ELSE Err(-1))

\* the RST test (tcp.rs 102-106), and without RST the rest
EgressTcpConns(c) ==
    /\ cpu[c].pc = "conns"
    /\ cpu[c].kind = "egress_tcp"
    /\ IF rst(cpu[c].frame_in[TCP_FLAGS_OFF]) = 1
       THEN LET r == MapRemove(LB_CONNECTIONS, cpu[c].client_key)
            IN /\ LB_CONNECTIONS' = r.map
               /\ IF r.ok
                  THEN /\ cpu' = [cpu EXCEPT ![c].pc = "update"]
                       /\ ev' = NoEvent
                  ELSE CpuReturn(c, cpu[c], Err(-1))
       ELSE EgressTcpTrack(c)
    /\ UNCHANGED <<lim, bootvars, smvars, BACKENDS, GATEWAY_INDEXES, mutex, rpc, lastRpc, nRpcs, nPkts>>

\* after the removal on RST: update_tcp_conns and the verdict
EgressTcpUpdate(c) ==
    /\ cpu[c].pc = "update"
    /\ cpu[c].kind = "egress_tcp"
    /\ EgressTcpTrack(c)
    /\ UNCHANGED <<lim, bootvars, smvars, BACKENDS, GATEWAY_INDEXES, mutex, rpc, lastRpc, nRpcs, nPkts>>

(***************************************************************************)
(* The data plane: RPC handlers and classifier invocations, interleaved.   *)
(***************************************************************************)
(***************************************************************************)
(* handle_udp_ingress (ingress/udp.rs 25-133).                             *)
(***************************************************************************)
\* EthHdr::LEN + Ipv4Hdr::LEN + offset_of!(UdpHdr, check)
UDP_CSUM_OFF == 40
UDP_SPORT_OFF == 34
UDP_DPORT_OFF == 36
UDP_LEN_OFF == 38

\* the UDP checksum over the pseudo header and the header of a datagram
\* without payload
UdpCsum(f) ==
    Not16(Fold(WordSum(f[IP_SRC_OFF], 4) + WordSum(f[IP_DST_OFF], 4) + 4352 + 2048
               + f[UDP_SPORT_OFF] + f[UDP_DPORT_OFF] + f[UDP_LEN_OFF]))

\* a UDP datagram as the classifier reads it
UdpFrame(src, sport, dst, dport) ==
    LET f0 == (ETH_DST_OFF :> 514) @@ (14 :> 69) @@ (16 :> 7168) @@ (18 :> 0) @@ (20 :> 64)
              @@ (22 :> 4416) @@ (IP_CSUM_OFF :> 0)
              @@ (IP_SRC_OFF :> Swap32(src)) @@ (IP_DST_OFF :> Swap32(dst))
              @@ (UDP_SPORT_OFF :> Swap16(sport)) @@ (UDP_DPORT_OFF :> Swap16(dport))
              @@ (UDP_LEN_OFF :> 2048) @@ (UDP_CSUM_OFF :> 0)
        f1 == [f0 EXCEPT ![IP_CSUM_OFF] = IpCsum(f0)]
    IN [f1 EXCEPT ![UDP_CSUM_OFF] = UdpCsum(f1)]

\* the frame arrives; the two ptr_at and BACKENDS.get(&backend_key) (udp.rs 26-39)
IngressUdpStart(c, frame) ==
    /\ cpu[c].pc = "idle"
    /\ nPkts < lim.pkts
    /\ Budget
    /\ nPkts' = nPkts + 1
    /\ rpc' = Disturbed(rpc)
    /\ IF ~(ptr_at(frame, IP_HDR_OFF) /\ ptr_at(frame, L4_HDR_OFF))
       THEN /\ cpu' = Disturbed(cpu)
            /\ ev' = [kind |-> "ingress_udp",
                      task |-> [pc |-> "idle", kind |-> "ingress_udp", frame_in |-> frame,
                                frame |-> frame, found |-> Nil, wrote_index |-> FALSE,
                                rewrite |-> "none", iso |-> AllIdle],
                      ret |-> Err(TC_ACT_OK)]
       ELSE LET backend_key == [ip |-> Swap32(frame[IP_DST_OFF]),
                                port |-> Swap16(frame[UDP_DPORT_OFF])]
                client_key == [ip |-> Swap32(frame[IP_SRC_OFF]), port |-> 0]
                task == [pc |-> "index", kind |-> "ingress_udp", frame_in |-> frame,
                         frame |-> frame, client_key |-> client_key,
                         found |-> tcp_ingress_lookup(LB_CONNECTIONS, client_key),
                         backend |-> Nil, backend_key |-> backend_key,
                         list |-> Nil, idx |-> 0, wrote_index |-> FALSE,
                         rewrite |-> "none", action |-> -1, iso |-> AllIdle]
            IN IF backend_key \in DOMAIN BACKENDS
               THEN /\ cpu' = [Disturbed(cpu) EXCEPT ![c] =
                                 [task EXCEPT !.list = BACKENDS[backend_key]]]
                    /\ ev' = NoEvent
               ELSE /\ cpu' = Disturbed(cpu)
                    /\ ev' = [kind |-> "ingress_udp", task |-> [task EXCEPT !.pc = "idle"],
                              ret |-> Err(TC_ACT_PIPE)]
    /\ UNCHANGED <<lim, bootvars, smvars, maps, mutex, lastRpc, nRpcs>>

\* GATEWAY_INDEXES.get(&backend_key), the bound checks, the choice of the
\* backend and the direct writes of the destination (udp.rs 40-78)
IngressUdpIndex(c) ==
    /\ cpu[c].pc = "index"
    /\ cpu[c].kind = "ingress_udp"
    /\ IF ~gateway_indexes_get(GATEWAY_INDEXES, cpu[c].backend_key, TC_ACT_PIPE).ok
       THEN CpuReturn(c, cpu[c],
                      gateway_indexes_get(GATEWAY_INDEXES, cpu[c].backend_key, TC_ACT_PIPE))
       ELSE LET backend_index ==
                    gateway_indexes_get(GATEWAY_INDEXES, cpu[c].backend_key, TC_ACT_PIPE).val
                task == [cpu[c] EXCEPT !.idx = backend_index]
                backend == Slot(cpu[c].list, backend_index)
            IN IF cpu[c].list.backends_len <= backend_index
               THEN CpuReturn(c, task, Ok(TC_ACT_PIPE))
               ELSE IF backend_index >= BACKENDS_ARRAY_CAPACITY
               THEN CpuReturn(c, task, Ok(TC_ACT_PIPE))
               ELSE /\ cpu' = [cpu EXCEPT ![c] =
                                 [task EXCEPT
                                    !.pc = "record",
                                    !.backend = backend,
                                    !.frame = [@ EXCEPT
                                                 ![IP_DST_OFF] = Swap32(backend.daddr),
                                                 ![UDP_DPORT_OFF] =
                                                     Swap16(AsU16(backend.dport))]]]
                    /\ ev' = NoEvent
    /\ UNCHANGED <<lim, bootvars, smvars, maps, mutex, rpc, lastRpc, nRpcs, nPkts>>

\* LB_CONNECTIONS.insert(&client_key, &lb_mapping, 0)?, the two rewrite
\* functions and the redirect (udp.rs 80-119)
IngressUdpRecord(c) ==
    /\ cpu[c].pc = "record"
    /\ cpu[c].kind = "ingress_udp"
    /\ \E failAt \in HelperFailures :
         LET t == cpu[c]
             lb_mapping == [backend |-> t.backend, backend_key |-> t.backend_key,
                            tcp_state |-> None]
             r == MapInsert(LB_CONNECTIONS, t.client_key, lb_mapping)
             original_daddr == t.frame_in[IP_DST_OFF]
             original_dport == t.frame_in[UDP_DPORT_OFF]
             backend_ip == Swap32(t.backend.daddr)
             backend_port == Swap16(AsU16(t.backend.dport))
             w1 == set_ipv4_ip_dst(t.frame, UDP_CSUM_OFF, original_daddr, backend_ip, failAt)
             w2 == set_ipv4_dest_port(w1.frame, UDP_CSUM_OFF, original_dport, backend_port,
                                      failAt)
         IN /\ LB_CONNECTIONS' = r.map
            /\ IF ~r.ok THEN CpuReturn(c, t, Err(-1))
               ELSE IF w1.ret # 0
               THEN CpuReturn(c, [t EXCEPT !.frame = w1.frame, !.rewrite = "failed"],
                              Ok(TC_ACT_PIPE))
               ELSE IF w2.ret # 0
               THEN CpuReturn(c, [t EXCEPT !.frame = w2.frame, !.rewrite = "failed"],
                              Ok(TC_ACT_PIPE))
               ELSE /\ cpu' = [cpu EXCEPT ![c] =
                                 [t EXCEPT !.pc = "advance", !.frame = w2.frame,
                                           !.rewrite = "ok", !.action = TC_ACT_REDIRECT]]
                    /\ ev' = NoEvent
    /\ UNCHANGED <<lim, bootvars, smvars, BACKENDS, GATEWAY_INDEXES, mutex, rpc, lastRpc, nRpcs, nPkts>>

\* GATEWAY_INDEXES.insert(&backend_key, &next, 0)? and the verdict
\* (udp.rs 121-132)
IngressUdpAdvance(c) ==
    /\ cpu[c].pc = "advance"
    /\ cpu[c].kind = "ingress_udp"
    /\ LET r == MapInsert(GATEWAY_INDEXES, cpu[c].backend_key,
                          next_index(cpu[c].idx, cpu[c].list.backends_len))
       IN /\ GATEWAY_INDEXES' = r.map
          /\ IF r.ok
             THEN CpuReturn(c, [cpu[c] EXCEPT !.wrote_index = TRUE], Ok(cpu[c].action))
             ELSE CpuReturn(c, cpu[c], Err(-1))
    /\ UNCHANGED <<lim, bootvars, smvars, BACKENDS, LB_CONNECTIONS, mutex, rpc, lastRpc, nRpcs, nPkts>>

(***************************************************************************)
(* handle_icmp_egress (egress/icmp.rs 21-87).                              *)
(***************************************************************************)
ICMP_PROTO_TYPE_UNREACH == 3
\* a type that is not destination unreachable: time exceeded
ICMP_TIME_EXCEEDED == 11
\* the type byte, the ICMP checksum, and the embedded IPv4 header, which
\* starts IcmpHdr::LEN = 8 bytes after the ICMP header
ICMP_TYPE_OFF == 34
ICMP_CSUM_OFF == 36
INNER_IP_OFF == 42
INNER_CSUM_OFF == 52
INNER_SRC_OFF == 54
INNER_DST_OFF == 58

\* bpf_csum_diff over the 20 bytes of the IPv4 header that starts at `base`
ip_header_sum(f, base) ==
    f[base] + f[base + 2] + f[base + 4] + f[base + 6] + f[base + 8] + f[base + 10]
    + WordSum(f[base + 12], 4) + WordSum(f[base + 16], 4)
\* utils.rs csum_fold_helper
csum_fold_helper(csum) == Not16(Fold(csum))

\* an ICMP message of `type` from a backend host to a client that embeds the
\* IPv4 header of the datagram inner_src -> inner_dst; without the embedded
\* header when `whole` is FALSE
IcmpFrame(src, dst, type, inner_src, inner_dst, whole) ==
    LET outer == (ETH_DST_OFF :> 514) @@ (14 :> 69) @@ (16 :> 14336) @@ (18 :> 0)
                 @@ (20 :> 64) @@ (22 :> 320) @@ (IP_CSUM_OFF :> 0)
                 @@ (IP_SRC_OFF :> Swap32(src)) @@ (IP_DST_OFF :> Swap32(dst))
                 @@ (ICMP_TYPE_OFF :> type) @@ (ICMP_CSUM_OFF :> 0)
        inner == (INNER_IP_OFF :> 69) @@ (44 :> 7168) @@ (46 :> 0) @@ (48 :> 64)
                 @@ (50 :> 4416) @@ (INNER_CSUM_OFF :> 0)
                 @@ (INNER_SRC_OFF :> Swap32(inner_src)) @@ (INNER_DST_OFF :> Swap32(inner_dst))
        f0 == IF whole THEN outer @@ inner ELSE outer
        f1 == [f0 EXCEPT ![IP_CSUM_OFF] = csum_fold_helper(ip_header_sum(f0, IP_HDR_OFF))]
    IN IF whole
       THEN [f1 EXCEPT ![INNER_CSUM_OFF] = csum_fold_helper(ip_header_sum(f1, INNER_IP_OFF))]
       ELSE f1

\* the client key of handle_icmp_egress (icmp.rs 34-38)
icmp_client_key_Source(frame) == [ip |-> Swap32(frame[IP_SRC_OFF]), port |-> 0]
icmp_client_key(frame) == [ip |-> Swap32(frame[IP_DST_OFF]), port |-> 0]

\* the frame arrives; the type test, LB_CONNECTIONS.get(client_key) and the
\* rewrite of the outer and of the embedded header (icmp.rs 22-82)
EgressIcmpStart(c, frame) ==
    /\ cpu[c].pc = "idle"
    /\ nPkts < lim.pkts
    /\ Budget
    /\ nPkts' = nPkts + 1
    /\ rpc' = Disturbed(rpc)
    /\ LET short == [pc |-> "idle", kind |-> "egress_icmp", frame_in |-> frame,
                     frame |-> frame, found |-> Nil, rewrite |-> "none", iso |-> AllIdle]
       IN IF ~(ptr_at(frame, IP_HDR_OFF) /\ ptr_at(frame, L4_HDR_OFF))
          THEN /\ cpu' = Disturbed(cpu)
               /\ ev' = [kind |-> "egress_icmp", task |-> short, ret |-> Err(TC_ACT_OK)]
          ELSE LET client_key == icmp_client_key(frame)
                   task == [pc |-> "remove", kind |-> "egress_icmp", frame_in |-> frame,
                            frame |-> frame, client_key |-> client_key,
                            found |-> tcp_ingress_lookup(LB_CONNECTIONS, client_key),
                            rewrite |-> "none", iso |-> AllIdle]
               IN IF frame[ICMP_TYPE_OFF] # ICMP_PROTO_TYPE_UNREACH
                  THEN /\ cpu' = Disturbed(cpu)
                       /\ ev' = [kind |-> "egress_icmp", task |-> [task EXCEPT !.pc = "idle"],
                                 ret |-> Ok(TC_ACT_PIPE)]
                  ELSE IF client_key \notin DOMAIN LB_CONNECTIONS
                  THEN /\ cpu' = Disturbed(cpu)
                       /\ ev' = [kind |-> "egress_icmp", task |-> [task EXCEPT !.pc = "idle"],
                                 ret |-> Err(TC_ACT_PIPE)]
                  ELSE LET lb_mapping == LB_CONNECTIONS[client_key]
                           f1 == [frame EXCEPT ![IP_SRC_OFF] = Swap32(lb_mapping.backend_key.ip),
                                               ![IP_CSUM_OFF] = 0]
                           f2 == [f1 EXCEPT ![IP_CSUM_OFF] =
                                      csum_fold_helper(ip_header_sum(f1, IP_HDR_OFF))]
                       IN IF ~ptr_at(frame, INNER_IP_OFF)
                          THEN /\ cpu' = Disturbed(cpu)
                               /\ ev' = [kind |-> "egress_icmp",
                                         task |-> [task EXCEPT !.pc = "idle", !.frame = f2,
                                                               !.rewrite = "failed"],
                                         ret |-> Err(TC_ACT_OK)]
                          ELSE LET f3 == [f2 EXCEPT
                                            ![INNER_DST_OFF] = Swap32(lb_mapping.backend_key.ip),
                                            ![INNER_CSUM_OFF] = 0]
                                   f4 == [f3 EXCEPT ![INNER_CSUM_OFF] =
                                            csum_fold_helper(ip_header_sum(f3, INNER_IP_OFF))]
                               IN /\ cpu' = [Disturbed(cpu) EXCEPT ![c] =
                                               [task EXCEPT !.frame = f4, !.rewrite = "ok"]]
                                  /\ ev' = NoEvent
    /\ UNCHANGED <<lim, bootvars, smvars, maps, mutex, lastRpc, nRpcs>>

\* LB_CONNECTIONS.remove(client_key)? and the verdict (icmp.rs 84-86)
EgressIcmpRemove(c) ==
    /\ cpu[c].pc = "remove"
    /\ cpu[c].kind = "egress_icmp"
    /\ LET r == MapRemove(LB_CONNECTIONS, cpu[c].client_key)
       IN /\ LB_CONNECTIONS' = r.map
          /\ CpuReturn(c, cpu[c], IF r.ok THEN Ok(TC_ACT_PIPE) ELSE Err(-1))
    /\ UNCHANGED <<lim, bootvars, smvars, BACKENDS, GATEWAY_INDEXES, mutex, rpc, lastRpc, nRpcs, nPkts>>

Next ==
    \/ \E h \in Handlers, req \in Requests : UpdateStart(h, req)
    \/ \E h \in Handlers : UpdateInsert(h)
    \/ \E h \in Handlers : UpdateResetIndex(h)
    \/ \E h \in Handlers, vip \in Vips : DeleteStart(h, vip)
    \/ \E h \in Handlers : DeleteBackends(h)
    \/ \E h \in Handlers : DeleteIndex(h)
    \/ \E h \in Handlers : DeleteScan(h)
    \/ \E h \in Handlers : DeletePurge(h)
    \/ \E c \in Cpus, frame \in IngressTcpFrames : IngressTcpStart(c, frame)
    \/ \E c \in Cpus : IngressTcpBackends(c)
    \/ \E c \in Cpus : IngressTcpIndex(c)
    \/ \E c \in Cpus : IngressTcpAdvance(c)
    \/ \E c \in Cpus : IngressTcpConns(c)
    \/ \E c \in Cpus : IngressTcpUpdate(c)
    \/ \E c \in Cpus : IngressTcpRecord(c)
    \/ \E c \in Cpus, frame \in EgressTcpFrames : EgressTcpStart(c, frame)
    \/ \E c \in Cpus : EgressTcpConns(c)
    \/ \E c \in Cpus : EgressTcpUpdate(c)

Spec == Init /\ [][Next]_vars

(***************************************************************************)
(* The entry points of the classifiers: what the kernel gets as verdict    *)
(* from the Result of the handler.                                         *)
(***************************************************************************)
TC_ACT_SHOT == 2

\* A plausible slip: the value of the match is the verdict.
tc_ingress_Match(result) == IF result.ok THEN result.val ELSE TC_ACT_SHOT

\* main.rs tc_ingress: the value of the match on the Result is discarded, the
\* verdict is TC_ACT_OK
tc_ingress(result) ==
    LET matched == IF result.ok THEN result.val ELSE TC_ACT_SHOT
    IN TC_ACT_OK

\* the entry point of the egress classifier is not among the sources: as the
\* specification has it, an error of the handler is a pass-through
tc_egress(result) == IF result.ok THEN result.val ELSE TC_ACT_PIPE

\* the verdict the kernel got from the last invocation
Verdict(e) ==
    IF e.kind \in {"ingress_tcp", "ingress_udp"} THEN tc_ingress(e.ret) ELSE tc_egress(e.ret)

(***************************************************************************)
(* The classifiers on one connection: one Update publishes V1, then one    *)
(* client sends TCP segments and UDP datagrams to V1 and to the            *)
(* unpublished V2, and the backend host answers with TCP segments and ICMP *)
(* messages.  Frames may end after the IPv4 header.                        *)
(***************************************************************************)
MaxPktRpcs == 1
MaxPktPkts == 4
MaxPktOps == 5

PktRequests == {[vip |-> <<V1>>, targets |-> <<T1, T2>>]}
PktIngressTcpFrames ==
    {TcpFrame(CL1.ip, CL1.port, v.ip, v.port, fl) : v \in Vips, fl \in {SYN, FIN, ACK, RST}}
    \cup {ShortFrame(CL1.ip, V1.ip)}
PktEgressTcpFrames ==
    {TcpFrame(T1.daddr, T1.dport, CL1.ip, CL1.port, fl) : fl \in {ACK, FIN + ACK, RST}}
    \cup {ShortFrame(T1.daddr, CL1.ip)}
PktIngressUdpFrames ==
    {UdpFrame(CL1.ip, CL1.port, v.ip, v.port) : v \in Vips} \cup {ShortFrame(CL1.ip, V1.ip)}
PktEgressIcmpFrames ==
    {IcmpFrame(T1.daddr, CL1.ip, type, CL1.ip, T1.daddr, whole) :
        type \in {ICMP_PROTO_TYPE_UNREACH, ICMP_TIME_EXCEEDED}, whole \in BOOLEAN}
    \cup {ShortFrame(T1.daddr, CL1.ip)}

InitPkt ==
    Start([rpcs |-> MaxPktRpcs, pkts |-> MaxPktPkts, ops |-> MaxPktOps, faults |-> {FALSE}],
          Vips)

NextPkt ==
    \/ \E req \in PktRequests : UpdateStart(1, req)
    \/ UpdateInsert(1)
    \/ UpdateResetIndex(1)
    \/ \E frame \in PktIngressTcpFrames : IngressTcpStart(1, frame)
    \/ IngressTcpBackends(1)
    \/ IngressTcpIndex(1)
    \/ IngressTcpAdvance(1)
    \/ IngressTcpConns(1)
    \/ IngressTcpUpdate(1)
    \/ IngressTcpRecord(1)
    \/ \E frame \in PktEgressTcpFrames : EgressTcpStart(1, frame)
    \/ EgressTcpConns(1)
    \/ EgressTcpUpdate(1)
    \/ \E frame \in PktIngressUdpFrames : IngressUdpStart(1, frame)
    \/ IngressUdpIndex(1)
    \/ IngressUdpRecord(1)
    \/ IngressUdpAdvance(1)
    \/ \E frame \in PktEgressIcmpFrames : EgressIcmpStart(1, frame)
    \/ EgressIcmpRemove(1)

SpecPkt == InitPkt /\ [][NextPkt]_vars

(***************************************************************************)
(* The error paths of the RPCs: Update requests without vip, with targets  *)
(* whose interface index cannot be resolved and with more targets than a   *)
(* BackendList holds, and Delete with map syscalls that may fail for a     *)
(* reason other than a missing key.  One UDP datagram gives Delete a       *)
(* mapping to purge.                                                       *)
(***************************************************************************)
MaxErrRpcs == 2
MaxErrPkts == 1
MaxErrOps == 3

\* 10.0.9.9:8080: no interface index and no route
T4 == [daddr |-> 167774473, dport |-> 8080, ifindex |-> <<>>]
Many(n, t) == [i \in 1 .. n |-> t]
ErrTargetLists ==
    {<<T1, T2>>, <<T4>>, <<T1, T4>>,
     Many(BACKENDS_ARRAY_CAPACITY, T1),
     Many(BACKENDS_ARRAY_CAPACITY + 1, T1),
     Many(BACKENDS_ARRAY_CAPACITY + 1, T2),
     Many(BACKENDS_ARRAY_CAPACITY, T1) \o <<T4>>,
     Many(BACKENDS_ARRAY_CAPACITY + 1, T1) \o <<T4>>}
ErrRequests == {[vip |-> v, targets |-> l] : v \in {<<>>, <<V1>>}, l \in ErrTargetLists}
ErrIngressUdpFrames == {UdpFrame(CL1.ip, CL1.port, V1.ip, V1.port)}

InitErr ==
    Start([rpcs |-> MaxErrRpcs, pkts |-> MaxErrPkts, ops |-> MaxErrOps, faults |-> BOOLEAN],
          Vips)

NextErr ==
    \/ \E req \in ErrRequests : UpdateStart(1, req)
    \/ UpdateInsert(1)
    \/ UpdateResetIndex(1)
    \/ \E vip \in Vips : DeleteStart(1, vip)
    \/ DeleteBackends(1)
    \/ DeleteIndex(1)
    \/ DeleteScan(1)
    \/ DeletePurge(1)
    \/ \E frame \in ErrIngressUdpFrames : IngressUdpStart(1, frame)
    \/ IngressUdpIndex(1)
    \/ IngressUdpRecord(1)
    \/ IngressUdpAdvance(1)

SpecErr == InitErr /\ [][NextErr]_vars

(***************************************************************************)
(* BACKENDS at capacity: Updates publish one VIP after the other until     *)
(* BACKENDS holds BPF_MAPS_CAPACITY keys; then come an Update for one more *)
(* VIP and an Update for a VIP that is published.                          *)
(***************************************************************************)
MaxCapRpcs == 130

\* 10.0.0.1:80, 10.0.0.1:81, ...
CapVip(k) == [ip |-> V1.ip, port |-> V1.port + k - 1]
CapVips == {CapVip(k) : k \in 1 .. BPF_MAPS_CAPACITY + 1}
\* the next VIP that is not published, and once BACKENDS is full the first
\* VIP again
CapRequests ==
    LET n == Cardinality(DOMAIN BACKENDS)
    IN {[vip |-> <<CapVip(k)>>, targets |-> <<T1>>] :
           k \in {n + 1} \cup (IF n = BPF_MAPS_CAPACITY THEN {1} ELSE {})}

InitCap == Start([rpcs |-> MaxCapRpcs, pkts |-> 0, ops |-> MaxCapRpcs, faults |-> {FALSE}],
                 CapVips)

NextCap ==
    \/ \E req \in CapRequests : UpdateStart(1, req)
    \/ UpdateInsert(1)
    \/ UpdateResetIndex(1)

SpecCap == InitCap /\ [][NextCap]_vars

(***************************************************************************)
(* LB_CONNECTIONS at capacity: one Update publishes V1 with one target,    *)
(* then UDP datagrams of one new source after the other fill               *)
(* LB_CONNECTIONS.  The frames of the client CL1 and of its backend, whole *)
(* or short, arrive among the first MaxFullFree frames and once            *)
(* LB_CONNECTIONS is full.                                                 *)
(***************************************************************************)
MaxFullRpcs == 1
MaxFullFree == 3
MaxFullPkts == 132

\* 10.0.4.2, 10.0.4.3, ...: the sources that fill LB_CONNECTIONS
FillIp(k) == 167773184 + 256 * (k \div 100) + (k % 100) + 1
FillCount == Cardinality({ck \in DOMAIN LB_CONNECTIONS : ck.ip # CL1.ip})
FillFrames == {UdpFrame(FillIp(FillCount + 1), CL1.port, V1.ip, V1.port)}
OtherFramesArrive ==
    nPkts < MaxFullFree \/ Cardinality(DOMAIN LB_CONNECTIONS) = BPF_MAPS_CAPACITY

FullRequests == {[vip |-> <<V1>>, targets |-> <<T1>>]}
FullIngressTcpFrames ==
    IF OtherFramesArrive
    THEN {TcpFrame(CL1.ip, CL1.port, V1.ip, V1.port, fl) : fl \in {SYN, RST}}
         \cup {ShortFrame(CL1.ip, V1.ip)}
    ELSE {}
FullEgressTcpFrames ==
    IF OtherFramesArrive
    THEN {TcpFrame(T1.daddr, T1.dport, CL1.ip, CL1.port, fl) : fl \in {ACK, RST}}
         \cup {ShortFrame(T1.daddr, CL1.ip)}
    ELSE {}
FullIngressUdpFrames ==
    FillFrames \cup
    (IF OtherFramesArrive
     THEN {UdpFrame(CL1.ip, CL1.port, v.ip, v.port) : v \in Vips}
          \cup {ShortFrame(CL1.ip, V1.ip)}
     ELSE {})
FullEgressIcmpFrames ==
    IF OtherFramesArrive
    THEN {IcmpFrame(T1.daddr, CL1.ip, type, CL1.ip, T1.daddr, whole) :
             type \in {ICMP_PROTO_TYPE_UNREACH, ICMP_TIME_EXCEEDED}, whole \in BOOLEAN}
         \cup {ShortFrame(T1.daddr, CL1.ip)}
    ELSE {}

InitFull ==
    Start([rpcs |-> MaxFullRpcs, pkts |-> MaxFullPkts, ops |-> MaxFullRpcs + MaxFullPkts,
           faults |-> {FALSE}], Vips)

NextFull ==
    \/ \E req \in FullRequests : UpdateStart(1, req)
    \/ UpdateInsert(1)
    \/ UpdateResetIndex(1)
    \/ \E frame \in FullIngressTcpFrames : IngressTcpStart(1, frame)
    \/ IngressTcpBackends(1)
    \/ IngressTcpIndex(1)
    \/ IngressTcpAdvance(1)
    \/ IngressTcpConns(1)
    \/ IngressTcpUpdate(1)
    \/ IngressTcpRecord(1)
    \/ \E frame \in FullEgressTcpFrames : EgressTcpStart(1, frame)
    \/ EgressTcpConns(1)
    \/ EgressTcpUpdate(1)
    \/ \E frame \in FullIngressUdpFrames : IngressUdpStart(1, frame)
    \/ IngressUdpIndex(1)
    \/ IngressUdpRecord(1)
    \/ IngressUdpAdvance(1)
    \/ \E frame \in FullEgressIcmpFrames : EgressIcmpStart(1, frame)
    \/ EgressIcmpRemove(1)

SpecFull == InitFull /\ [][NextFull]_vars

(***************************************************************************)
(* Updates of one VIP, one after the other, with lists of different        *)
(* lengths, interleaved with the ingress invocations of new connections    *)
(* and datagrams for that VIP.                                             *)
(***************************************************************************)
MaxRaceRpcs == 2
MaxRacePkts == 2
MaxRaceOps == 4

RaceTargetLists == {<<>>, <<T1>>, <<T1, T2>>, Many(BACKENDS_ARRAY_CAPACITY, T1)}
RaceRequests == {[vip |-> <<V1>>, targets |-> l] : l \in RaceTargetLists}
RaceIngressTcpFrames ==
    {TcpFrame(CL1.ip, CL1.port, V1.ip, V1.port, fl) : fl \in {SYN, RST}}
    \cup {TcpFrame(CL2.ip, CL2.port, V1.ip, V1.port, SYN)}
RaceIngressUdpFrames == {UdpFrame(CL1.ip, CL1.port, V1.ip, V1.port)}

InitRace ==
    Start([rpcs |-> MaxRaceRpcs, pkts |-> MaxRacePkts, ops |-> MaxRaceOps, faults |-> {FALSE}],
          Vips)

NextRace ==
    \/ \E req \in RaceRequests : UpdateStart(1, req)
    \/ UpdateInsert(1)
    \/ UpdateResetIndex(1)
    \/ \E frame \in RaceIngressTcpFrames : IngressTcpStart(1, frame)
    \/ IngressTcpBackends(1)
    \/ IngressTcpIndex(1)
    \/ IngressTcpAdvance(1)
    \/ IngressTcpConns(1)
    \/ IngressTcpUpdate(1)
    \/ IngressTcpRecord(1)
    \/ \E frame \in RaceIngressUdpFrames : IngressUdpStart(1, frame)
    \/ IngressUdpIndex(1)
    \/ IngressUdpRecord(1)
    \/ IngressUdpAdvance(1)

SpecRace == InitRace /\ [][NextRace]_vars

(***************************************************************************)
(* Two classifier invocations at once: tc_ingress and tc_egress run on     *)
(* every CPU that receives a frame, and nothing serialises two frames of   *)
(* the same connection.                                                    *)
(***************************************************************************)
MaxConcRpcs == 1
MaxConcPkts == 3
MaxConcOps == 4

ConcCpus == {1, 2}
ConcRequests == {[vip |-> <<V1>>, targets |-> <<T1>>]}
ConcIngressTcpFrames ==
    {TcpFrame(CL1.ip, CL1.port, V1.ip, V1.port, fl) : fl \in {SYN, FIN, ACK, RST}}
ConcEgressTcpFrames ==
    {TcpFrame(T1.daddr, T1.dport, CL1.ip, CL1.port, fl) : fl \in {ACK, FIN + ACK, RST}}

InitConc ==
    /\ lim = [rpcs |-> MaxConcRpcs, pkts |-> MaxConcPkts, ops |-> MaxConcOps,
              faults |-> {FALSE}]
    /\ BACKENDS = EmptyMap
    /\ GATEWAY_INDEXES = EmptyMap
    /\ LB_CONNECTIONS = EmptyMap
    /\ mutex = [backends_map |-> Free, gateway_indexes_map |-> Free, tcp_conns_map |-> Free]
    /\ rpc = [h \in Handlers |-> Idle]
    /\ cpu = [c \in ConcCpus |-> Idle]
    /\ ev = NoEvent
    /\ lastRpc = [v \in Vips |-> "none"]
    /\ nRpcs = 0
    /\ nPkts = 0
    /\ sm = TCPStateDefault
    /\ hdrs = <<>>
    /\ smret = [from |-> TCPStateDefault, transitioned |-> FALSE]
    /\ loader = LoaderOff
    /\ tls = TlsOff

NextConc ==
    \/ \E req \in ConcRequests : UpdateStart(1, req)
    \/ UpdateInsert(1)
    \/ UpdateResetIndex(1)
    \/ \E c \in ConcCpus, frame \in ConcIngressTcpFrames : IngressTcpStart(c, frame)
    \/ \E c \in ConcCpus : IngressTcpBackends(c)
    \/ \E c \in ConcCpus : IngressTcpIndex(c)
    \/ \E c \in ConcCpus : IngressTcpAdvance(c)
    \/ \E c \in ConcCpus : IngressTcpConns(c)
    \/ \E c \in ConcCpus : IngressTcpUpdate(c)
    \/ \E c \in ConcCpus : IngressTcpRecord(c)
    \/ \E c \in ConcCpus, frame \in ConcEgressTcpFrames : EgressTcpStart(c, frame)
    \/ \E c \in ConcCpus : EgressTcpConns(c)
    \/ \E c \in ConcCpus : EgressTcpUpdate(c)

SpecConc == InitConc /\ [][NextConc]_vars

(***************************************************************************)
(* TCP and UDP traffic of one host at once.  handle_udp_ingress keys its   *)
(* mappings by ClientKey{ip, port: 0}; a TCP segment whose source port is  *)
(* 0 has the same ClientKey.                                               *)
(***************************************************************************)
MaxMixRpcs == 1
MaxMixPkts == 3
MaxMixOps == 4

MixIngressTcpFrames ==
    {TcpFrame(CL1.ip, 0, V1.ip, V1.port, fl) : fl \in {SYN, FIN, RST}}
    \cup {TcpFrame(CL1.ip, CL1.port, V1.ip, V1.port, SYN)}
MixEgressTcpFrames ==
    {TcpFrame(T1.daddr, T1.dport, CL1.ip, 0, fl) : fl \in {FIN, RST}}
MixIngressUdpFrames == {UdpFrame(CL1.ip, CL1.port, V1.ip, V1.port)}

InitMix ==
    /\ lim = [rpcs |-> MaxMixRpcs, pkts |-> MaxMixPkts, ops |-> MaxMixOps,
              faults |-> {FALSE}]
    /\ BACKENDS = EmptyMap
    /\ GATEWAY_INDEXES = EmptyMap
    /\ LB_CONNECTIONS = EmptyMap
    /\ mutex = [backends_map |-> Free, gateway_indexes_map |-> Free, tcp_conns_map |-> Free]
    /\ rpc = [h \in Handlers |-> Idle]
    /\ cpu = [c \in ConcCpus |-> Idle]
    /\ ev = NoEvent
    /\ lastRpc = [v \in Vips |-> "none"]
    /\ nRpcs = 0
    /\ nPkts = 0
    /\ sm = TCPStateDefault
    /\ hdrs = <<>>
    /\ smret = [from |-> TCPStateDefault, transitioned |-> FALSE]
    /\ loader = LoaderOff
    /\ tls = TlsOff

NextMix ==
    \/ \E req \in ConcRequests : UpdateStart(1, req)
    \/ UpdateInsert(1)
    \/ UpdateResetIndex(1)
    \/ \E c \in ConcCpus, frame \in MixIngressTcpFrames : IngressTcpStart(c, frame)
    \/ \E c \in ConcCpus : IngressTcpBackends(c)
    \/ \E c \in ConcCpus : IngressTcpIndex(c)
    \/ \E c \in ConcCpus : IngressTcpAdvance(c)
    \/ \E c \in ConcCpus : IngressTcpConns(c)
    \/ \E c \in ConcCpus : IngressTcpUpdate(c)
    \/ \E c \in ConcCpus : IngressTcpRecord(c)
    \/ \E c \in ConcCpus, frame \in MixEgressTcpFrames : EgressTcpStart(c, frame)
    \/ \E c \in ConcCpus : EgressTcpConns(c)
    \/ \E c \in ConcCpus : EgressTcpUpdate(c)
    \/ \E c \in ConcCpus, frame \in MixIngressUdpFrames : IngressUdpStart(c, frame)
    \/ \E c \in ConcCpus : IngressUdpIndex(c)
    \/ \E c \in ConcCpus : IngressUdpRecord(c)
    \/ \E c \in ConcCpus : IngressUdpAdvance(c)

SpecMix == InitMix /\ [][NextMix]_vars

(***************************************************************************)
(* Deletes handled at once by two tasks of the RPC service, after the      *)
(* traffic that created the mappings has ended.                            *)
(***************************************************************************)
MaxDelRpcs == 4
MaxDelPkts == 2
MaxDelOps == 6

DelRequests == {[vip |-> <<v>>, targets |-> <<T1>>] : v \in Vips}
DelIngressUdpFrames ==
    {UdpFrame(CL1.ip, CL1.port, V1.ip, V1.port), UdpFrame(CL2.ip, CL2.port, V1.ip, V1.port),
     UdpFrame(CL2.ip, CL2.port, V2.ip, V2.port)}
\* no RPC is being handled
NoHandlerRuns == \A h \in Handlers : rpc[h].pc = "idle"
\* no classifier invocation is running
NoFrameInFlight == \A c \in DOMAIN cpu : cpu[c].pc = "idle"

InitDel ==
    Start([rpcs |-> MaxDelRpcs, pkts |-> MaxDelPkts, ops |-> MaxDelOps, faults |-> {FALSE}],
          Vips)

NextDel ==
    \/ \E h \in Handlers, req \in DelRequests : NoHandlerRuns /\ UpdateStart(h, req)
    \/ \E h \in Handlers : UpdateInsert(h)
    \/ \E h \in Handlers : UpdateResetIndex(h)
    \/ \E h \in Handlers, vip \in Vips : NoFrameInFlight /\ DeleteStart(h, vip)
    \/ \E h \in Handlers : DeleteBackends(h)
    \/ \E h \in Handlers : DeleteIndex(h)
    \/ \E h \in Handlers : DeleteScan(h)
    \/ \E h \in Handlers : DeletePurge(h)
    \/ \E frame \in DelIngressUdpFrames : NoHandlerRuns /\ IngressUdpStart(1, frame)
    \/ IngressUdpIndex(1)
    \/ IngressUdpRecord(1)
    \/ IngressUdpAdvance(1)

SpecDel == InitDel /\ [][NextDel]_vars

\* a step of handler task h after the request was received
HandlerStep(h) ==
    \/ UpdateInsert(h)
    \/ UpdateResetIndex(h)
    \/ DeleteBackends(h)
    \/ DeleteIndex(h)
    \/ DeleteScan(h)
    \/ DeletePurge(h)
\* the tokio runtime polls every task that can make progress, and a tokio
\* Mutex is handed to its waiters in turn
SpecDelFair == SpecDel /\ \A h \in Handlers : WF_vars(HandlerStep(h))

(***************************************************************************)
(* The TCP state machine on its own: process_tcp_state_transition applied  *)
(* to a sequence of headers, starting in TCPState::default().              *)
(***************************************************************************)
SmFlags == {0, SYN, FIN, ACK, FIN + ACK, RST, RST + ACK, RST + FIN}

Feed(flags) ==
    /\ Len(hdrs) < MaxHdrs
    /\ LET t == process_tcp_state_transition(flags, sm)
       IN /\ sm' = t.state
          /\ smret' = [from |-> sm, transitioned |-> t.transitioned]
    /\ hdrs' = Append(hdrs, flags)
    /\ UNCHANGED <<lim, bootvars, maps, mutex, rpc, cpu, ev, lastRpc, nRpcs, nPkts>>

NextSM == \E flags \in SmFlags : Feed(flags)

SpecSM == Init /\ [][NextSM]_vars

(***************************************************************************)
(* The loader (loader/src/main.rs): one startup over the pins of the BPF   *)
(* filesystem.  An object is "old" when an earlier run of the loader       *)
(* created it and "new" when Ebpf::load of this run did; a program reads   *)
(* and writes the maps of its own object.  BACKENDS, GATEWAY_INDEXES and   *)
(* LB_CONNECTIONS are the maps the RPC service holds: the ones of the      *)
(* earlier run until start_api_server gets the ones of this run.           *)
(***************************************************************************)
ProgramNames == <<"tc_ingress", "tc_egress">>
MapNames == <<"BACKENDS", "GATEWAY_INDEXES", "LB_CONNECTIONS">>
\* the order in which main handles them (main.rs 119-141)
Items == ProgramNames \o MapNames
PinPaths == {Items[i] : i \in DOMAIN Items}
Unpin(pins, path) == [q \in DOMAIN pins \ {path} |-> pins[q]]
Bind(f, name, gen) == [q \in DOMAIN f \cup {name} |-> IF q = name THEN gen ELSE f[q]]

\* A plausible slip: a pinned program is never used.
attaches_pinned_Never(pinned_program, load_ebpf) == FALSE
\* program_load_pin: the test of main.rs 190
attaches_pinned(pinned_program, load_ebpf) == pinned_program # <<>> /\ ~load_ebpf
\* A plausible slip: an existing pin of a map is opened whatever load_ebpf says.
opens_pinned_Always(load_ebpf, pin_path_exists) == pin_path_exists
\* map_take_pin: the test of main.rs 283
opens_pinned(load_ebpf, pin_path_exists) == ~load_ebpf /\ pin_path_exists

\* what the maps of the earlier run may hold: nothing, or one published VIP
\* with a tracked UDP source
BootContents ==
    LET list == [backends |-> build_backends(<<T1>>, <<>>).backends, backends_len |-> 1]
    IN {[B |-> EmptyMap, G |-> EmptyMap, C |-> EmptyMap],
        [B |-> (V1 :> list), G |-> (V1 :> 0),
         C |-> ([ip |-> CL1.ip, port |-> 0] :>
                  [backend |-> list.backends[1], backend_key |-> V1, tcp_state |-> None])]}

LoaderPath == Items[loader.item]
LoaderFailed == loader' = [loader EXCEPT !.pc = "failed"]
\* the next item of main after a program or a map is done
LoaderNext(l) ==
    [l EXCEPT !.item = IF l.item < Len(Items) THEN l.item + 1 ELSE l.item,
              !.pc = IF l.item < Len(ProgramNames) THEN "get_pinned"
                     ELSE IF l.item < Len(Items) THEN "map" ELSE "serve"]
LoaderFrame == UNCHANGED <<lim, tls, smvars, mutex, rpc, cpu, ev, lastRpc, nRpcs, nPkts>>

\* Opt::parse, Ebpf::load and tc::qdisc_add_clsact, whose result is dropped
\* (main.rs 105-118)
LoaderStart(load_ebpf) ==
    /\ loader.pc = "main"
    /\ \E fail \in lim.faults :
         loader' = [pc |-> IF fail THEN "failed" ELSE "get_pinned",
                    load_ebpf |-> load_ebpf, item |-> 1, pins |-> loader.pins,
                    pinned_program |-> <<>>, attaching |-> "new",
                    attached |-> <<>>, loaded |-> {}, handles |-> <<>>,
                    removed |-> {}, before |-> [pins |-> loader.pins, maps |-> Snapshot]]
    /\ LoaderFrame
    /\ UNCHANGED maps

\* get_pinned_program (main.rs 203-218) and the test of program_load_pin
\* (main.rs 190); load_pin_program begins with the second try_exists
\* (main.rs 225-243)
GetPinnedProgram ==
    /\ loader.pc = "get_pinned"
    /\ \E fail \in lim.faults :
         LET exists == LoaderPath \in DOMAIN loader.pins
             pinned_program == IF exists THEN <<loader.pins[LoaderPath]>> ELSE <<>>
         IN IF exists /\ fail
            THEN LoaderFailed
            ELSE loader' =
                   [loader EXCEPT
                      !.pinned_program = pinned_program,
                      !.attaching = IF attaches_pinned(pinned_program, loader.load_ebpf)
                                    THEN pinned_program[1] ELSE "new",
                      !.pc = IF attaches_pinned(pinned_program, loader.load_ebpf)
                             THEN "attach"
                             ELSE IF loader.load_ebpf /\ exists THEN "remove_pin"
                             ELSE "load"]
    /\ LoaderFrame
    /\ UNCHANGED maps

\* std::fs::remove_file(pin_path) of load_pin_program (main.rs 244-247)
RemoveProgramPin ==
    /\ loader.pc = "remove_pin"
    /\ \E fail \in lim.faults :
         IF fail THEN LoaderFailed
         ELSE loader' = [loader EXCEPT !.pins = Unpin(loader.pins, LoaderPath),
                                       !.removed = loader.removed \cup {LoaderPath},
                                       !.pc = "load"]
    /\ LoaderFrame
    /\ UNCHANGED maps

\* program.load()? (main.rs 250)
LoadProgram ==
    /\ loader.pc = "load"
    /\ \E fail \in lim.faults :
         IF fail THEN LoaderFailed
         ELSE loader' = [loader EXCEPT !.loaded = loader.loaded \cup {LoaderPath},
                                       !.pc = "pin"]
    /\ LoaderFrame
    /\ UNCHANGED maps

\* program.pin(pin_path) (main.rs 252-254): it fails when the path exists
PinProgram ==
    /\ loader.pc = "pin"
    /\ \E fail \in lim.faults :
         IF fail \/ LoaderPath \in DOMAIN loader.pins THEN LoaderFailed
         ELSE loader' = [loader EXCEPT !.pins = Bind(loader.pins, LoaderPath, "new"),
                                       !.pc = "attach"]
    /\ LoaderFrame
    /\ UNCHANGED maps

\* attach_interface_logs (main.rs 260-274)
AttachProgram ==
    /\ loader.pc = "attach"
    /\ \E fail \in lim.faults :
         IF fail THEN LoaderFailed
         ELSE loader' = LoaderNext([loader EXCEPT
                          !.attached = Bind(loader.attached, LoaderPath, loader.attaching)])
    /\ LoaderFrame
    /\ UNCHANGED maps

\* map_take_pin up to its test: MapData::from_pin of an existing pin, or on
\* to the removal and the pinning (main.rs 276-290)
MapTakePin ==
    /\ loader.pc = "map"
    /\ \E fail \in lim.faults :
         LET pin_path_exists == LoaderPath \in DOMAIN loader.pins
         IN IF opens_pinned(loader.load_ebpf, pin_path_exists)
            THEN IF fail THEN LoaderFailed
                 ELSE loader' = LoaderNext([loader EXCEPT
                                  !.handles = Bind(loader.handles, LoaderPath,
                                                   loader.pins[LoaderPath])])
            ELSE loader' = [loader EXCEPT
                              !.pc = IF pin_path_exists THEN "map_remove" ELSE "map_pin"]
    /\ LoaderFrame
    /\ UNCHANGED maps

\* std::fs::remove_file(pin_path) of map_take_pin (main.rs 291-296)
RemoveMapPin ==
    /\ loader.pc = "map_remove"
    /\ \E fail \in lim.faults :
         IF fail THEN LoaderFailed
         ELSE loader' = [loader EXCEPT !.pins = Unpin(loader.pins, LoaderPath),
                                       !.removed = loader.removed \cup {LoaderPath},
                                       !.pc = "map_pin"]
    /\ LoaderFrame
    /\ UNCHANGED maps

\* bpf_program.take_map(identifier) and map.pin(pin_path) (main.rs 298-305)
PinMap ==
    /\ loader.pc = "map_pin"
    /\ \E fail \in lim.faults :
         IF fail \/ LoaderPath \in DOMAIN loader.pins THEN LoaderFailed
         ELSE loader' = LoaderNext([loader EXCEPT
                          !.pins = Bind(loader.pins, LoaderPath, "new"),
                          !.handles = Bind(loader.handles, LoaderPath, "new")])
    /\ LoaderFrame
    /\ UNCHANGED maps

\* HashMap::try_from of the three maps and start_api_server (main.rs
\* 143-176): the RPC service holds the maps main obtained, a map of the new
\* object being empty
StartApiServer ==
    /\ loader.pc = "serve"
    /\ loader' = [loader EXCEPT !.pc = "done"]
    /\ BACKENDS' = IF loader.handles["BACKENDS"] = "old" THEN BACKENDS ELSE EmptyMap
    /\ GATEWAY_INDEXES' =
         IF loader.handles["GATEWAY_INDEXES"] = "old" THEN GATEWAY_INDEXES ELSE EmptyMap
    /\ LB_CONNECTIONS' =
         IF loader.handles["LB_CONNECTIONS"] = "old" THEN LB_CONNECTIONS ELSE EmptyMap
    /\ LoaderFrame

\* the loader is started over any subset of the five pins, each left by an
\* earlier run; every operation on the filesystem and the kernel may fail
InitBoot ==
    /\ lim = [rpcs |-> 0, pkts |-> 0, ops |-> 0, faults |-> BOOLEAN]
    /\ \E c \in BootContents :
         /\ BACKENDS = c.B
         /\ GATEWAY_INDEXES = c.G
         /\ LB_CONNECTIONS = c.C
    /\ mutex = [backends_map |-> Free, gateway_indexes_map |-> Free, tcp_conns_map |-> Free]
    /\ rpc = [h \in Handlers |-> Idle]
    /\ cpu = [c \in Cpus |-> Idle]
    /\ ev = NoEvent
    /\ lastRpc = [v \in Vips |-> "none"]
    /\ nRpcs = 0
    /\ nPkts = 0
    /\ sm = TCPStateDefault
    /\ hdrs = <<>>
    /\ smret = [from |-> TCPStateDefault, transitioned |-> FALSE]
    /\ loader \in {[pc |-> "main", pins |-> [p \in S |-> "old"]] : S \in SUBSET PinPaths}
    /\ tls = TlsOff

NextBoot ==
    \/ \E load_ebpf \in BOOLEAN : LoaderStart(load_ebpf)
    \/ GetPinnedProgram
    \/ RemoveProgramPin
    \/ LoadProgram
    \/ PinProgram
    \/ AttachProgram
    \/ MapTakePin
    \/ RemoveMapPin
    \/ PinMap
    \/ StartApiServer

SpecBoot == InitBoot /\ [][NextBoot]_vars

(***************************************************************************)
(* setup_tls (api-server/src/lib.rs 87-153) over the PEM files it is       *)
(* pointed to.  A file is missing, holds text that is no PEM object        *)
(* ("invalid"), or holds what its role asks for ("valid").                 *)
(***************************************************************************)
FileStates == {"missing", "invalid", "valid"}
\* TLSConfig (config.rs 9-31): None, TLS or MutualTLS with their paths
TlsConfigs ==
    {<<>>,
     <<[mode |-> "TLS", server_certificate_path |-> "server.crt",
        server_private_key_path |-> "server.key"]>>,
     <<[mode |-> "MutualTLS", server_certificate_path |-> "server.crt",
        server_private_key_path |-> "server.key",
        client_certificate_authority_root_path |-> "ca.crt"]>>}
TlsPaths == {"server.crt", "server.key", "ca.crt"}

\* fs::read_to_string(path)
read_to_string(files, path) ==
    IF files[path] = "missing" THEN Err("NotFound") ELSE Ok(files[path])
\* Server::tls_config of tonic, as far as the tests of the repository pin it
\* down: Ok for a valid identity, alone (test_setup_tls.rs 9-43) or with a
\* valid client CA root (104-146), Err for a client CA root that is no
\* certificate (148-182); for an identity that is no PEM object the tests
\* say nothing, and `lenient` decides
server_tls_config(cert, key, client_ca_root, lenient) ==
    IF client_ca_root # <<>> /\ client_ca_root[1] # "valid" THEN Err("tls")
    ELSE IF cert = "valid" /\ key = "valid" THEN Ok("builder")
    ELSE IF lenient THEN Ok("builder") ELSE Err("tls")

\* A plausible slip: MutualTLS is set up like TLS, the client CA root unread.
setup_tls_NoClientCa(tls_config, files, lenient) ==
    IF tls_config = <<>> THEN Ok("builder")
    ELSE LET config == tls_config[1]
             cert == read_to_string(files, config.server_certificate_path)
             key == read_to_string(files, config.server_private_key_path)
         IN IF ~cert.ok THEN cert
            ELSE IF ~key.ok THEN key
            ELSE server_tls_config(cert.val, key.val, <<>>, lenient)

setup_tls(tls_config, files, lenient) ==
    IF tls_config = <<>> THEN Ok("builder")
    ELSE LET config == tls_config[1]
             cert == read_to_string(files, config.server_certificate_path)
             key == read_to_string(files, config.server_private_key_path)
         IN IF ~cert.ok THEN cert
            ELSE IF ~key.ok THEN key
            ELSE IF config.mode = "TLS"
            THEN server_tls_config(cert.val, key.val, <<>>, lenient)
            ELSE LET client_ca_cert ==
                         read_to_string(files, config.client_certificate_authority_root_path)
                 IN IF ~client_ca_cert.ok THEN client_ca_cert
                    ELSE server_tls_config(cert.val, key.val, <<client_ca_cert.val>>, lenient)

SetupTls ==
    /\ tls.pc = "call"
    /\ \E lenient \in BOOLEAN :
         tls' = [tls EXCEPT !.pc = "returned",
                            !.result = setup_tls(tls.tls_config, tls.files, lenient)]
    /\ UNCHANGED <<lim, loader, smvars, maps, mutex, rpc, cpu, ev, lastRpc, nRpcs, nPkts>>

InitTls ==
    /\ lim = [rpcs |-> 0, pkts |-> 0, ops |-> 0, faults |-> {FALSE}]
    /\ BACKENDS = EmptyMap
    /\ GATEWAY_INDEXES = EmptyMap
    /\ LB_CONNECTIONS = EmptyMap
    /\ mutex = [backends_map |-> Free, gateway_indexes_map |-> Free, tcp_conns_map |-> Free]
    /\ rpc = [h \in Handlers |-> Idle]
    /\ cpu = [c \in Cpus |-> Idle]
    /\ ev = NoEvent
    /\ lastRpc = [v \in Vips |-> "none"]
    /\ nRpcs = 0
    /\ nPkts = 0
    /\ sm = TCPStateDefault
    /\ hdrs = <<>>
    /\ smret = [from |-> TCPStateDefault, transitioned |-> FALSE]
    /\ loader = LoaderOff
    /\ tls \in {[pc |-> "call", tls_config |-> c, files |-> f, result |-> Err("none")] :
                  c \in TlsConfigs, f \in [TlsPaths -> FileStates]}

NextTls == SetupTls

SpecTls == InitTls /\ [][NextTls]_vars


(***************************************************************************)
(* Properties.                                                             *)
(*                                                                         *)
(* ev describes the operation that completed in the step that led to the   *)
(* current state: its locals (ev.task) and its result.  ev.task.iso tells  *)
(* that no other handler or classifier invocation was in flight between    *)
(* the start and the end of the operation.                                 *)
(***************************************************************************)
NoRpcInFlight == \A h \in Handlers : rpc[h].pc = "idle"
References(conns, key) == {ck \in DOMAIN conns : conns[ck].backend_key = key}

\* C1: when update returns success, BACKENDS[key] holds the targets of the
\* request in request order - daddr, dport and the interface index the target
\* carried or, without one, the resolved one - and GATEWAY_INDEXES[key] is 0.
C1_UpdatePublishes ==
    (ev.kind = "update" /\ ev.status = "ok") =>
        LET key == ev.task.key
            targets == ev.task.targets
        IN /\ key \in DOMAIN BACKENDS
           /\ BACKENDS[key].backends_len = Len(targets)
           /\ \A i \in 1 .. Len(targets) :
                /\ Slot(BACKENDS[key], i - 1).daddr = targets[i].daddr
                /\ Slot(BACKENDS[key], i - 1).dport = targets[i].dport
                /\ Slot(BACKENDS[key], i - 1).ifindex =
                     IF targets[i].ifindex # <<>> THEN targets[i].ifindex[1]
                     ELSE if_index_for_routing_ip(targets[i].daddr).ifindex
           /\ key \in DOMAIN GATEWAY_INDEXES
           /\ GATEWAY_INDEXES[key] = 0

\* C2: when no RPC is in flight, every VIP whose most recently completed RPC is
\* a successful update is a key of both BACKENDS and GATEWAY_INDEXES.
C2_PublishedPair ==
    NoRpcInFlight =>
        \A v \in Vips : lastRpc[v] = "update_ok" =>
            v \in DOMAIN BACKENDS /\ v \in DOMAIN GATEWAY_INDEXES

\* C3: when a delete that ran with no other task in flight returns a success
\* confirmation, no entry of BACKENDS or GATEWAY_INDEXES has the key of the VIP
\* and no LB_CONNECTIONS entry has it as backend_key - whatever the maps held
\* when the delete was issued.
C3_DeletePurges ==
    (ev.kind = "delete" /\ DeleteSucceeded(ev.status) /\ ev.task.iso) =>
        /\ ev.task.key \notin DOMAIN BACKENDS
        /\ ev.task.key \notin DOMAIN GATEWAY_INDEXES
        /\ References(LB_CONNECTIONS, ev.task.key) = {}

\* C4: a delete of a VIP that is a key of neither BACKENDS nor GATEWAY_INDEXES
\* returns a success confirmation and leaves the three maps as they were; a
\* delete that directly follows a delete of the same VIP leaves the maps as
\* the first one left them.
C4_DeleteIdempotent ==
    (ev.kind = "delete" /\ ev.task.iso) =>
        /\ (ev.task.key \notin DOMAIN ev.task.pre.B /\ ev.task.key \notin DOMAIN ev.task.pre.G)
              => (DeleteSucceeded(ev.status) /\ Snapshot = ev.task.pre)
        /\ ev.task.chained # "no"
              => (DeleteSucceeded(ev.status) /\ Snapshot = ev.task.pre)
\* a delete that removed the entries of a published VIP, directly followed by a
\* second delete of the VIP that found nothing to remove
C4_Witness ==
    /\ ev.kind = "delete"
    /\ ev.task.iso
    /\ ev.task.chained = "ok"
    /\ ev.status = "ok_did_not_exist"
    /\ Snapshot = ev.task.pre

\* C5: a new TCP connection handled with no other task in flight, to a VIP
\* whose backend list has length k >= 1 and whose cursor is start, is
\* dispatched to slot start mod k, and the cursor is then (start mod k + 1)
\* mod k.
C5_RoundRobin ==
    (/\ ev.kind = "ingress_tcp"
     /\ ev.task.new_conn
     /\ ev.task.iso
     /\ ev.task.list # Nil
     /\ ev.task.idx >= 0) =>
        LET k == ev.task.list.backends_len
            start == ev.task.idx
        IN k >= 1 =>
             /\ ev.task.backend = Slot(ev.task.list, start % k)
             /\ GATEWAY_INDEXES[ev.task.backend_key] = ((start % k) + 1) % k

\* C6: an ingress TCP packet whose ClientKey has a mapping in LB_CONNECTIONS
\* uses the backend of the mapping, does not write the cursor and, when the
\* rewrite helpers succeed, leaves with the address and the port of that
\* backend as destination.
C6_Affinity ==
    (ev.kind = "ingress_tcp" /\ ev.task.found # Nil) =>
        /\ ev.task.backend = ev.task.found.backend
        /\ ~ev.task.wrote_index
        /\ ev.task.rewrite = "ok" =>
             /\ Swap32(ev.task.frame[IP_DST_OFF]) = ev.task.found.backend.daddr
             /\ Swap16(ev.task.frame[TCP_DPORT_OFF]) = ev.task.found.backend.dport

\* C7: after ingress processed a TCP packet for which a backend was chosen and
\* every helper succeeded, the destination address of the frame is
\* backend.daddr, its TCP destination port is backend.dport, and no field
\* other than these two and the two checksums differs from the frame that
\* arrived.
C7_Rewrite ==
    (ev.kind = "ingress_tcp" /\ ev.task.rewrite = "ok" /\ ev.ret.ok) =>
        /\ Swap32(ev.task.frame[IP_DST_OFF]) = ev.task.backend.daddr
        /\ Swap16(ev.task.frame[TCP_DPORT_OFF]) = ev.task.backend.dport
        /\ \A off \in DOMAIN ev.task.frame \ {IP_DST_OFF, TCP_DPORT_OFF, IP_CSUM_OFF, TCP_CSUM_OFF} :
             ev.task.frame[off] = ev.task.frame_in[off]

\* C8: after ingress or egress processed a TCP frame with the RST flag, no
\* helper having failed, the ClientKey of the frame has no entry in
\* LB_CONNECTIONS - whatever the other flags and the tracked state.
C8_RstRemoves ==
    (/\ ev.kind \in {"ingress_tcp", "egress_tcp"}
     /\ rst(ev.task.frame_in[TCP_FLAGS_OFF]) = 1
     /\ ev.task.rewrite # "failed") =>
        ev.task.client_key \notin DOMAIN LB_CONNECTIONS

(***************************************************************************)
(* The transition table of the state machine, as <<state, FIN bit, ACK     *)
(* bit, next state>>; a pair of state and bits without a row stays.        *)
(***************************************************************************)
\* the columns FIN, FIN+ACK and ACK read as the exact combination of the bits
ExactTable ==
    {<<"Established", 1, 0, "FinWait1">>,
     <<"FinWait1", 1, 0, "Closing">>,
     <<"FinWait1", 1, 1, "TimeWait">>,
     <<"FinWait1", 0, 1, "FinWait2">>,
     <<"FinWait2", 0, 1, "TimeWait">>,
     <<"Closing", 0, 1, "TimeWait">>,
     <<"TimeWait", 0, 1, "Closed">>}
\* Established tests the FIN bit alone; FinWait2, Closing and TimeWait test the
\* ACK bit alone
BitTable ==
    ExactTable \cup
    {<<"Established", 1, 1, "FinWait1">>,
     <<"FinWait2", 1, 1, "TimeWait">>,
     <<"Closing", 1, 1, "TimeWait">>,
     <<"TimeWait", 1, 1, "Closed">>}
Follows(table) ==
    hdrs # <<>> =>
        LET flags == hdrs[Len(hdrs)]
            rows == {r \in table : r[1] = smret.from /\ r[2] = fin(flags) /\ r[3] = ack(flags)}
        IN /\ IF rows = {} THEN sm = smret.from ELSE \A r \in rows : sm = r[4]
           /\ smret.transitioned = (sm # smret.from)

\* C9 as stated: process_tcp_state_transition follows the table of section 4.4
\* with the columns read as the exact combination of the FIN and ACK bits, and
\* returns true exactly when the state changed.
C9_ExactTable == Follows(ExactTable)

\* C9 as amended: process_tcp_state_transition follows the table in which
\* Established goes to FinWait1 whenever FIN is set, FinWait1 goes to TimeWait
\* on FIN+ACK, to Closing on FIN without ACK and to FinWait2 on ACK without
\* FIN, FinWait2 and Closing go to TimeWait and TimeWait goes to Closed
\* whenever ACK is set, and every other pair stays; it returns true exactly
\* when the state changed.
C9_BitTable == Follows(BitTable)
\* a FIN+ACK was fed to Established
C9_Witness ==
    /\ hdrs # <<>>
    /\ hdrs[Len(hdrs)] = FIN + ACK
    /\ smret.from = "Established"
    /\ sm = "FinWait1"

\* the state process_tcp_state_transition reaches from `state` on the headers
\* of `seq`, in order
RECURSIVE Run(_, _)
Run(state, seq) ==
    IF seq = <<>> THEN state
    ELSE Run(process_tcp_state_transition(Head(seq), state).state, Tail(seq))

\* C10: starting in Established, the state machine is only ever in one of the
\* six states of TCPState, each of the six is reached by some sequence of
\* headers, and every header fed to Closed leaves it Closed and returns false.
C10_StatesAndAbsorbing ==
    /\ sm \in {"Established", "FinWait1", "FinWait2", "Closing", "TimeWait", "Closed"}
    /\ (hdrs # <<>> /\ smret.from = "Closed") => (sm = "Closed" /\ ~smret.transitioned)
    /\ hdrs = <<>> =>
         \A s \in TCPState :
            \E n \in 0 .. MaxHdrs : \E seq \in [1 .. n -> SmFlags] : Run(sm, seq) = s
\* a header with the ACK bit was fed to Closed
C10_Witness ==
    /\ hdrs # <<>>
    /\ smret.from = "Closed"
    /\ ack(hdrs[Len(hdrs)]) = 1
    /\ sm = "Closed"

(***************************************************************************)
(* The classifiers on one connection (SpecPkt).                            *)
(***************************************************************************)
\* the last invocation was the `kind` classifier on a TCP segment with exactly
\* `flags`, ran alone, and found the connection tracked in state `state`
TrackedTcp(kind, flags, state) ==
    /\ ev.kind = kind
    /\ ev.task.iso
    /\ ev.task.found # Nil
    /\ ev.task.found.tcp_state = state
    /\ ev.task.frame_in[TCP_FLAGS_OFF] = flags
StateNow(client_key) ==
    IF client_key \in DOMAIN LB_CONNECTIONS THEN LB_CONNECTIONS[client_key].tcp_state
    ELSE "absent"

DestKey(frame) == [ip |-> Swap32(frame[IP_DST_OFF]), port |-> Swap16(frame[TCP_DPORT_OFF])]

\* C12: round trip.  A TCP packet of client C:p that ingress rewrote is
\* tracked under the destination V:P it arrived with, and an egress TCP frame
\* addressed to C:p that egress rewrote leaves with source address V and
\* source port P of the mapping, exactly.
C12_RoundTrip ==
    /\ (/\ ev.kind = "ingress_tcp"
        /\ ev.task.iso
        /\ ev.task.rewrite = "ok"
        /\ ev.task.client_key \in DOMAIN LB_CONNECTIONS)
         => LB_CONNECTIONS[ev.task.client_key].backend_key = DestKey(ev.task.frame_in)
    /\ (/\ ev.kind = "egress_tcp"
        /\ ev.task.iso
        /\ ev.task.rewrite = "ok")
         => /\ ev.task.frame[IP_SRC_OFF] = Swap32(ev.task.found.backend_key.ip)
            /\ ev.task.frame[TCP_SPORT_OFF] = Swap16(ev.task.found.backend_key.port)

\* a step that completes handle_icmp_egress on a frame with an ICMP header
IcmpDone == ev'.kind = "egress_icmp" /\ ptr_at(ev'.task.frame_in, L4_HDR_OFF)
\* ClientKey{ip = IPv4 destination, port = 0} of the frame of that step
IcmpKey == [ip |-> Swap32(ev'.task.frame_in[IP_DST_OFF]), port |-> 0]
\* the frame of that step is a Destination Unreachable whose destination has
\* a mapping
IcmpCorrelates ==
    /\ ev'.task.frame_in[ICMP_TYPE_OFF] = ICMP_PROTO_TYPE_UNREACH
    /\ IcmpKey \in DOMAIN LB_CONNECTIONS
\* the outer source and the embedded destination are backend_key.ip, and the
\* mapping is removed
IcmpRestored ==
    /\ ev'.task.frame[IP_SRC_OFF] = Swap32(LB_CONNECTIONS[IcmpKey].backend_key.ip)
    /\ INNER_DST_OFF \in DOMAIN ev'.task.frame
    /\ ev'.task.frame[INNER_DST_OFF] = Swap32(LB_CONNECTIONS[IcmpKey].backend_key.ip)
    /\ LB_CONNECTIONS' = [k \in DOMAIN LB_CONNECTIONS \ {IcmpKey} |-> LB_CONNECTIONS[k]]
IcmpUntouched ==
    /\ ev'.task.frame = ev'.task.frame_in
    /\ LB_CONNECTIONS' = LB_CONNECTIONS

\* C13 as stated: an ICMP Destination Unreachable frame whose IPv4
\* destination has a mapping under ClientKey{destination, 0} leaves with the
\* outer source and the embedded inner destination set to backend_key.ip, and
\* the mapping is removed; every other ICMP frame leaves unchanged and
\* LB_CONNECTIONS is unchanged.
C13_IcmpAnyFrame ==
    [][IcmpDone => IF IcmpCorrelates THEN IcmpRestored ELSE IcmpUntouched]_vars
\* C13 amended: the same for the Destination Unreachable frames that hold the
\* whole embedded IPv4 header.
C13_IcmpWholeFrame ==
    [][IcmpDone =>
         IF IcmpCorrelates
         THEN ptr_at(ev'.task.frame_in, INNER_IP_OFF) => IcmpRestored
         ELSE IcmpUntouched]_vars
\* a Destination Unreachable with its embedded header was rewritten and its
\* mapping removed
C13_Witness ==
    /\ ev.kind = "egress_icmp"
    /\ ev.task.found # Nil
    /\ ev.task.rewrite = "ok"
    /\ ev.task.frame[INNER_DST_OFF] = Swap32(ev.task.found.backend_key.ip)
    /\ ev.task.frame[INNER_DST_OFF] # ev.task.frame_in[INNER_DST_OFF]
    /\ ev.task.client_key \notin DOMAIN LB_CONNECTIONS

\* a step that completes handle_udp_ingress with the redirect verdict, the
\* invocation having run alone
UdpDone ==
    /\ ev'.kind = "ingress_udp"
    /\ ev'.ret = Ok(TC_ACT_REDIRECT)
    /\ ev'.task.iso
\* ClientKey{ip = source address, port = 0} of the datagram of that step
UdpKey == [ip |-> Swap32(ev'.task.frame_in[IP_SRC_OFF]), port |-> 0]

\* C14: when ingress has processed a UDP datagram for a published VIP whose
\* cursor is i < len, LB_CONNECTIONS[ClientKey{source address, 0}] holds the
\* backend at slot i, the VIP's BackendKey and no tcp_state, whatever it held
\* before, the cursor is (i + 1) mod len, and the datagram leaves for the
\* backend at slot i.
C14_UdpDispatch ==
    [][UdpDone =>
         LET vip == DestKey(ev'.task.frame_in)
             i == GATEWAY_INDEXES[vip]
             list == BACKENDS[vip]
         IN /\ vip \in DOMAIN BACKENDS
            /\ i < list.backends_len
            /\ UdpKey \in DOMAIN LB_CONNECTIONS'
            /\ LB_CONNECTIONS'[UdpKey] =
                   [backend |-> Slot(list, i), backend_key |-> vip, tcp_state |-> None]
            /\ GATEWAY_INDEXES'[vip] = (i + 1) % list.backends_len
            /\ ev'.task.frame[IP_DST_OFF] = Swap32(Slot(list, i).daddr)
            /\ ev'.task.frame[UDP_DPORT_OFF] = Swap16(Slot(list, i).dport)]_vars
\* a datagram of a source that had a mapping to another backend was
\* dispatched by the cursor, which wrapped to 0
C14_Witness ==
    /\ ev.kind = "ingress_udp"
    /\ ev.ret = Ok(TC_ACT_REDIRECT)
    /\ ev.task.iso
    /\ ev.task.found # Nil
    /\ ev.task.found.backend # ev.task.backend
    /\ LB_CONNECTIONS[ev.task.client_key].backend = ev.task.backend
    /\ ev.task.idx > 0
    /\ GATEWAY_INDEXES[ev.task.backend_key] = 0

(***************************************************************************)
(* The error paths of the RPCs (SpecErr).                                  *)
(***************************************************************************)
\* a step with which an Update returns
UpdateDone == ev'.kind = "update"
\* the request of that Update carries a vip
HasVip == ev'.task.key # Nil
\* the positions of the targets of that Update whose interface index cannot
\* be resolved
Unresolved ==
    {k \in 1 .. Len(ev'.task.targets) :
        ev'.task.targets[k].ifindex = <<>> /\ ev'.task.targets[k].daddr \notin Routed}
TooManyTargets == Len(ev'.task.targets) > BACKENDS_ARRAY_CAPACITY

\* C15 as stated: an Update that carries more than 128 targets returns
\* ResourceExhausted and writes no map.
C15_TooManyAlways ==
    [][(UpdateDone /\ TooManyTargets)
         => (ev'.status = "ResourceExhausted" /\ UNCHANGED maps)]_vars
\* C15 amended: an Update that carries a vip and more than 128 targets, the
\* first 129 of which have an interface index or a route, returns
\* ResourceExhausted and writes no map, whether or not its targets carry an
\* ifindex.
C15_TooManyResolved ==
    [][(/\ UpdateDone
        /\ TooManyTargets
        /\ HasVip
        /\ \A k \in Unresolved : k > BACKENDS_ARRAY_CAPACITY + 1)
         => (ev'.status = "ResourceExhausted" /\ UNCHANGED maps)]_vars
\* an Update with 130 targets, the last of which cannot be resolved, returned
\* ResourceExhausted
C15_Witness ==
    /\ ev.kind = "update"
    /\ ev.status = "ResourceExhausted"
    /\ Len(ev.task.targets) > BACKENDS_ARRAY_CAPACITY + 1
    /\ ev.task.targets[Len(ev.task.targets)] = T4
    /\ BACKENDS = EmptyMap

\* C17 as stated: an Update without vip returns InvalidArgument, an Update
\* with a target whose interface index cannot be resolved returns Internal,
\* and neither writes a map.
C17_ErrorsAlways ==
    [][UpdateDone =>
         /\ ~HasVip => (ev'.status = "InvalidArgument" /\ UNCHANGED maps)
         /\ Unresolved # {} => (ev'.status = "Internal" /\ UNCHANGED maps)]_vars
\* C17 amended: an Update without vip returns InvalidArgument; an Update with
\* a vip in which the interface index of one of the first 129 targets cannot
\* be resolved returns Internal; neither writes a map.
C17_ErrorsInOrder ==
    [][UpdateDone =>
         /\ ~HasVip => (ev'.status = "InvalidArgument" /\ UNCHANGED maps)
         /\ (HasVip /\ \E k \in Unresolved : k <= BACKENDS_ARRAY_CAPACITY + 1)
              => (ev'.status = "Internal" /\ UNCHANGED maps)]_vars
\* an Update with a vip and a target without route returned Internal and the
\* maps are empty
C17_Witness ==
    /\ ev.kind = "update"
    /\ ev.task.key # Nil
    /\ \E k \in 1 .. Len(ev.task.targets) : ev.task.targets[k] = T4
    /\ ev.status = "Internal"
    /\ BACKENDS = EmptyMap
    /\ GATEWAY_INDEXES = EmptyMap

\* C18: a Delete in which a map operation failed for a reason other than a
\* missing key reports Internal.
C18_OtherErrorsInternal ==
    (ev.kind = "delete" /\ ev.task.errno \notin {"none", "ENOENT"})
      => ev.status = "Internal"

(***************************************************************************)
(* BACKENDS at capacity (SpecCap).                                         *)
(***************************************************************************)
\* a step with which an Update returns that was issued for a VIP that was not
\* a key of BACKENDS while BACKENDS held 128 keys
UpdateAtCapacity == UpdateDone /\ ev'.task.at_capacity

\* C16 as stated: the Update fails with ResourceExhausted and the three maps
\* are unchanged.
C16_AtCapacityExhausted ==
    [][UpdateAtCapacity => (ev'.status = "ResourceExhausted" /\ UNCHANGED maps)]_vars
\* C16 amended: the Update fails with Internal, the status update gives to
\* every failed map insertion, and the three maps are unchanged.
C16_AtCapacityInternal ==
    [][UpdateAtCapacity => (ev'.status = "Internal" /\ UNCHANGED maps)]_vars
\* the Update for the 129th VIP returned and its key is in no map
C16_Witness ==
    /\ ev.kind = "update"
    /\ ev.status = "Internal"
    /\ Cardinality(DOMAIN BACKENDS) = BPF_MAPS_CAPACITY
    /\ ev.task.key = CapVip(BPF_MAPS_CAPACITY + 1)
    /\ ev.task.key \notin DOMAIN BACKENDS
    /\ ev.task.key \notin DOMAIN GATEWAY_INDEXES

(***************************************************************************)
(* Pass-through (SpecPkt).                                                 *)
(***************************************************************************)
\* a step that completes an ingress invocation that ran alone on a frame with
\* an L4 header
IngressDone ==
    /\ ev'.kind \in {"ingress_tcp", "ingress_udp"}
    /\ ptr_at(ev'.task.frame_in, L4_HDR_OFF)
    /\ ev'.task.iso
PassVerdicts == {TC_ACT_OK, TC_ACT_PIPE}

\* C19: a TCP or UDP frame whose (destination address, destination port) is
\* not a key of BACKENDS leaves ingress as it came, with a pass-through
\* verdict, and no map is modified, whatever LB_CONNECTIONS holds for its
\* source.
C19_UnpublishedPasses ==
    [][(IngressDone /\ DestKey(ev'.task.frame_in) \notin DOMAIN BACKENDS)
         => /\ ev'.task.frame = ev'.task.frame_in
            /\ ev'.ret.val \in PassVerdicts
            /\ UNCHANGED maps]_vars

\* the last invocation of a classifier met an internal failure: its handler
\* returned an Err (frame too short, lookup miss, failed map insert or
\* remove) or gave up after a failed checksum or store helper
ClassifierRan == ev.kind \in {"ingress_tcp", "ingress_udp", "egress_tcp", "egress_icmp"}
InternalFailure == ~ev.ret.ok \/ ev.task.rewrite = "failed"

ChecksumsRecomputed(kind, f) ==
    /\ f[IP_CSUM_OFF] = IpCsum(f)
    /\ kind \in {"ingress_tcp", "egress_tcp"} => f[TCP_CSUM_OFF] = TcpCsum(f)
    /\ kind = "ingress_udp" => f[UDP_CSUM_OFF] \in {0, UdpCsum(f)}
Classifiers == {"ingress_tcp", "ingress_udp", "egress_tcp", "egress_icmp"}

\* C21: after every rewrite performed by ingress (TCP or UDP destination
\* address and port) or egress (TCP source address and port, ICMP outer source
\* and inner destination address), the IPv4 header checksum and the TCP/UDP
\* checksum of the frame equal the values recomputed from scratch over the
\* rewritten headers.
C21_ChecksumLaw ==
    (ev.kind \in Classifiers /\ ev.task.rewrite = "ok") =>
        ChecksumsRecomputed(ev.kind, ev.task.frame)

(***************************************************************************)
(* The loader: re-attaching and re-loading.                                *)
(***************************************************************************)
LoaderRan == loader.pc \notin {"off", "main"}
AllPinned == DOMAIN loader.before.pins = PinPaths
\* every program attached and every map opened so far is of generation gen
AllOf(gen) ==
    /\ \A p \in DOMAIN loader.attached : loader.attached[p] = gen
    /\ \A m \in DOMAIN loader.handles : loader.handles[m] = gen
Served ==
    /\ loader.pc = "done"
    /\ DOMAIN loader.attached = {ProgramNames[i] : i \in DOMAIN ProgramNames}
    /\ DOMAIN loader.handles = {MapNames[i] : i \in DOMAIN MapNames}

\* C22: when load_ebpf is not requested and pins exist for both programs and
\* all three maps, startup loads no new program and removes no pin, what it
\* attaches and opens are the pinned programs and maps, and the contents of
\* BACKENDS, GATEWAY_INDEXES and LB_CONNECTIONS stay as they were.
C22_Reattach ==
    (LoaderRan /\ ~loader.load_ebpf /\ AllPinned) =>
        /\ loader.loaded = {}
        /\ loader.removed = {}
        /\ loader.pins = loader.before.pins
        /\ AllOf("old")
        /\ Snapshot = loader.before.maps
        /\ loader.pc \in {"done", "serve"} => DOMAIN loader.handles # {}
        /\ loader.pc = "done" => Served

\* a restart over all five pins re-attached, and the published VIP is still
\* in the maps
C22_Witness ==
    /\ Served
    /\ ~loader.load_ebpf
    /\ AllPinned
    /\ V1 \in DOMAIN BACKENDS
    /\ loader.attached["tc_egress"] = "old"

\* C23: when load_ebpf is requested, every pin that existed before startup is
\* removed before the freshly loaded object is pinned at its path, and after
\* a successful startup all five pin paths exist and refer to the freshly
\* loaded programs and maps - whatever subset of the pins existed.
C23_Reload ==
    (LoaderRan /\ loader.load_ebpf) =>
        /\ \A p \in DOMAIN loader.pins :
             (loader.pins[p] = "new" /\ p \in DOMAIN loader.before.pins)
                 => p \in loader.removed
        /\ loader.pc = "done" =>
             /\ Served
             /\ DOMAIN loader.pins = PinPaths
             /\ \A p \in PinPaths : loader.pins[p] = "new"
             /\ loader.loaded = DOMAIN loader.attached
             /\ AllOf("new")

\* a re-load over the pins of one program and one map succeeded
C23_Witness ==
    /\ Served
    /\ loader.load_ebpf
    /\ DOMAIN loader.before.pins = {"tc_ingress", "BACKENDS"}
    /\ loader.removed = {"tc_ingress", "BACKENDS"}

(***************************************************************************)
(* setup_tls and the PEM files.                                            *)
(***************************************************************************)
TlsReturned == tls.pc = "returned"
TlsMode == IF tls.tls_config = <<>> THEN "none" ELSE tls.tls_config[1].mode
TlsFile(path) == tls.files[path]

\* C24: setup_tls returns Ok when no TLS mode is configured and when every
\* configured PEM file (server certificate and private key, plus the client CA
\* root for mutual TLS) exists and is valid; it returns an error when the
\* server certificate, the private key or the client CA root file is missing
\* and when the client CA root is not a valid certificate.
C24_SetupTls ==
    TlsReturned =>
        /\ TlsMode = "none" => tls.result.ok
        /\ (TlsMode = "TLS" /\ TlsFile("server.crt") = "valid"
                            /\ TlsFile("server.key") = "valid") => tls.result.ok
        /\ (TlsMode = "MutualTLS" /\ \A p \in TlsPaths : TlsFile(p) = "valid")
               => tls.result.ok
        /\ (TlsMode # "none" /\ "missing" \in {TlsFile("server.crt"), TlsFile("server.key")})
               => ~tls.result.ok
        /\ (TlsMode = "MutualTLS" /\ TlsFile("ca.crt") # "valid") => ~tls.result.ok

\* mutual TLS with a valid identity and a client CA root that is no
\* certificate was refused
C24_Witness ==
    /\ TlsReturned
    /\ TlsMode = "MutualTLS"
    /\ TlsFile("server.crt") = "valid"
    /\ TlsFile("server.key") = "valid"
    /\ TlsFile("ca.crt") = "invalid"
    /\ ~tls.result.ok

(***************************************************************************)
(* The cursor and the backend list under interleaving.                     *)
(***************************************************************************)
\* C25: whenever no RPC handler and no ingress invocation is in flight, every
\* key of GATEWAY_INDEXES is also a key of BACKENDS, after every interleaving
\* of Update, Delete and ingress invocations on the same VIP.
C25_IndexHasBackends ==
    AllIdle => DOMAIN GATEWAY_INDEXES \subseteq DOMAIN BACKENDS

\* handler h performs the reset of the cursor that ends its Update
ResetsIndex(h) == rpc[h].pc = "reset_index" /\ rpc'[h].pc = "idle"
\* invocation c reads the cursor in the step that follows the reset of an
\* Update of its key: the value it reads is the one that reset wrote
ReadsResetCursor(c) ==
    /\ cpu[c].pc = "index"
    /\ cpu'[c].pc # "index"
    /\ ev.kind = "update"
    /\ ev.status = "ok"
    /\ ev.task.key = cpu[c].backend_key

\* C26: within one Update the write of BACKENDS[k] happens before the reset
\* of GATEWAY_INDEXES[k] to 0, and no ingress invocation reads the cursor
\* written by that reset together with the backend list that preceded the
\* Update (Updates being handled one after the other, a list held by the
\* invocation that differs from the Update's was read before its write).
C26_ListBeforeCursor ==
    [][/\ \A h \in DOMAIN rpc :
            ResetsIndex(h) => /\ rpc[h].key \in DOMAIN BACKENDS
                              /\ BACKENDS[rpc[h].key] = rpc[h].list
       /\ \A c \in DOMAIN cpu :
            ReadsResetCursor(c) => cpu[c].list = ev.task.list]_vars

\* C27: whenever no Update and no ingress invocation is in flight and k is a
\* key of both maps, GATEWAY_INDEXES[k] < BACKENDS[k].backends_len, for
\* Updates with any number of targets and TCP and UDP ingress invocations.
C27_CursorBelowLen ==
    AllIdle =>
        \A k \in DOMAIN GATEWAY_INDEXES \cap DOMAIN BACKENDS :
            GATEWAY_INDEXES[k] < BACKENDS[k].backends_len

(***************************************************************************)
(* The bound check of the dispatch.                                        *)
(***************************************************************************)
\* task t of an ingress invocation chose a backend from the list it read
Dispatched(t) ==
    /\ "list" \in DOMAIN t
    /\ t.list # Nil
    /\ t.backend # Nil
DispatchInBounds(t) ==
    Dispatched(t) =>
        /\ t.idx < t.list.backends_len
        /\ t.idx < BACKENDS_ARRAY_CAPACITY
        /\ t.backend = t.list.backends[t.idx + 1]
        /\ t.backend # BackendDefault
\* invocation c reads a cursor that is not below the length of its list
ReadsStaleCursor(c) ==
    /\ cpu[c].pc = "index"
    /\ cpu'[c].pc # "index"
    /\ cpu[c].backend_key \in DOMAIN GATEWAY_INDEXES
    /\ \/ GATEWAY_INDEXES[cpu[c].backend_key] >= cpu[c].list.backends_len
       \/ GATEWAY_INDEXES[cpu[c].backend_key] >= BACKENDS_ARRAY_CAPACITY

\* C28: under every interleaving of ingress invocations and Updates, ingress
\* (TCP new connection or UDP) never dispatches to a slot at an index >=
\* backends_len of the list it read; when the cursor it read is >=
\* backends_len or >= 128 the frame is passed through and no map is written.
C28_DispatchInBounds ==
    [][/\ \A c \in DOMAIN cpu : DispatchInBounds(cpu'[c])
       /\ ev'.kind \in {"ingress_tcp", "ingress_udp"} => DispatchInBounds(ev'.task)
       /\ \A c \in DOMAIN cpu :
            ReadsStaleCursor(c) =>
                /\ cpu'[c].pc = "idle"
                /\ ev'.ret.ok
                /\ ev'.ret.val \in PassVerdicts
                /\ ev'.task.frame = ev'.task.frame_in
                /\ ev'.task.backend = Nil
                /\ UNCHANGED maps]_vars

\* a datagram or new connection met a cursor left at the length of a list of
\* at least one backend, and was passed through
C28_Witness ==
    /\ ev.kind \in {"ingress_tcp", "ingress_udp"}
    /\ "list" \in DOMAIN ev.task
    /\ ev.task.list # Nil
    /\ ev.task.list.backends_len >= 1
    /\ ev.task.idx >= ev.task.list.backends_len
    /\ ev.task.backend = Nil
    /\ ev.ret.ok

(***************************************************************************)
(* C29.  The tcp_state stored for a ClientKey under concurrent ingress and *)
(* egress invocations.                                                     *)
(***************************************************************************)
\* the position of a TCPState in the order Established < FinWait1 <
\* {FinWait2, Closing} < TimeWait < Closed
Rank(state) ==
    CASE state = "Established" -> 0
      [] state = "FinWait1" -> 1
      [] state \in {"FinWait2", "Closing"} -> 2
      [] state = "TimeWait" -> 3
      [] state = "Closed" -> 4

\* the keys whose TCP mapping lives through the step
Surviving ==
    {k \in DOMAIN LB_CONNECTIONS \cap DOMAIN LB_CONNECTIONS' :
        LB_CONNECTIONS[k].tcp_state # None /\ LB_CONNECTIONS'[k].tcp_state # None}

\* C29: for each ClientKey, no step of any interleaving of ingress and egress
\* invocations replaces the stored tcp_state of a living mapping by a state
\* that is earlier in the order Established < FinWait1 < {FinWait2, Closing}
\* < TimeWait < Closed.
C29_NeverBackward ==
    [][\A k \in Surviving :
          Rank(LB_CONNECTIONS'[k].tcp_state) >= Rank(LB_CONNECTIONS[k].tcp_state)]_vars


(***************************************************************************)
(* C30.  Closed is never stored.                                           *)
(***************************************************************************)
\* the invocation that just returned found a mapping for its ClientKey and
\* update_tcp_conns moved its copy of the mapping to Closed
MovedToClosed(kind) ==
    /\ ev.kind = kind
    /\ "found" \in DOMAIN ev.task
    /\ ev.task.found # Nil
    /\ ev.task.found.tcp_state # "Closed"
    /\ ev.task.tcp_state = "Closed"

\* C30: no entry of LB_CONNECTIONS has tcp_state = Closed, and when an
\* ingress or an egress invocation has moved a tracked connection to Closed,
\* the ClientKey is absent from LB_CONNECTIONS when the invocation returns.
C30_ClosedNeverStored ==
    /\ \A k \in DOMAIN LB_CONNECTIONS : LB_CONNECTIONS[k].tcp_state # "Closed"
    /\ \A kind \in {"ingress_tcp", "egress_tcp"} :
          MovedToClosed(kind) => ev.task.client_key \notin DOMAIN LB_CONNECTIONS
\* an egress ACK found the mapping in TimeWait and removed it
C30_Witness ==
    /\ MovedToClosed("egress_tcp")
    /\ ev.task.found.tcp_state = "TimeWait"
    /\ ev.ret = Ok(TC_ACT_PIPE)
    /\ ev.task.client_key \notin DOMAIN LB_CONNECTIONS

(***************************************************************************)
(* C31.  The effect of one TCP frame on the mapping of a tracked           *)
(* ClientKey.                                                              *)
(***************************************************************************)
\* the invocation that just returned ran alone, found a TCP mapping for its
\* ClientKey, and its frame carried no RST
TrackedNoRst(kind) ==
    /\ ev.kind = kind
    /\ ev.task.iso
    /\ ev.task.found # Nil
    /\ ev.task.found.tcp_state # None
    /\ rst(ev.task.frame_in[TCP_FLAGS_OFF]) = 0
\* what the transition function makes of the state found and the frame's flags
Transition == process_tcp_state_transition(ev.task.frame_in[TCP_FLAGS_OFF],
                                           ev.task.found.tcp_state)
\* the mapping now stored is the one found, in the state of Transition, or
\* none when that state is Closed
StoredAsTransition ==
    IF Transition.state = "Closed"
    THEN ev.task.client_key \notin DOMAIN LB_CONNECTIONS
    ELSE /\ ev.task.client_key \in DOMAIN LB_CONNECTIONS
         /\ LB_CONNECTIONS[ev.task.client_key] =
                [ev.task.found EXCEPT !.tcp_state = Transition.state]
\* invocation c holds a mapping it found, its frame has no RST and leaves the
\* state it read as it is, and c takes its last step
KeepsState(c) ==
    /\ cpu[c].pc = "conns"
    /\ cpu[c].found # Nil
    /\ cpu[c].tcp_state # None
    /\ rst(cpu[c].frame_in[TCP_FLAGS_OFF]) = 0
    /\ ~process_tcp_state_transition(cpu[c].frame_in[TCP_FLAGS_OFF],
                                     cpu[c].tcp_state).transitioned
    /\ cpu'[c].pc = "idle"

Acts(c) == cpu[c].pc # "idle" /\ cpu'[c].pc # cpu[c].pc
\* the step creates the mapping of k
Creates(k) == k \notin DOMAIN LB_CONNECTIONS /\ k \in DOMAIN LB_CONNECTIONS'
\* the step replaces the mapping of k
Upserts(k) ==
    /\ k \in DOMAIN LB_CONNECTIONS
    /\ k \in DOMAIN LB_CONNECTIONS'
    /\ LB_CONNECTIONS'[k] # LB_CONNECTIONS[k]

\* C32: a mapping created by a step of TCP ingress has a tcp_state, a mapping
\* created by a step of UDP ingress has none, and a step of TCP ingress or
\* egress that replaces a mapping leaves it with a tcp_state exactly if it
\* had one.
C32_StatePresence ==
    [][\A c \in DOMAIN cpu : Acts(c) =>
         \A k \in DOMAIN LB_CONNECTIONS' :
            /\ (Creates(k) /\ cpu[c].kind = "ingress_tcp")
                  => LB_CONNECTIONS'[k].tcp_state # None
            /\ (Creates(k) /\ cpu[c].kind = "ingress_udp")
                  => LB_CONNECTIONS'[k].tcp_state = None
            /\ (Upserts(k) /\ cpu[c].kind \in {"ingress_tcp", "egress_tcp"})
                  => (LB_CONNECTIONS'[k].tcp_state = None
                        <=> LB_CONNECTIONS[k].tcp_state = None)]_vars

(***************************************************************************)
(* C33.  Mappings and the VIPs they belong to.                             *)
(***************************************************************************)
\* C33: whenever no RPC handler and no classifier invocation is in flight,
\* the backend_key of every entry of LB_CONNECTIONS is a key of BACKENDS.
C33_NoOrphans ==
    AllIdle => \A k \in DOMAIN LB_CONNECTIONS :
                  LB_CONNECTIONS[k].backend_key \in DOMAIN BACKENDS

(***************************************************************************)
(* C34.  A rewrite primitive fails.                                        *)
(***************************************************************************)
\* the invocation that just returned gave up its rewrite because a checksum
\* or store primitive failed
RewriteFailed(kind) ==
    /\ ev.kind = kind
    /\ "rewrite" \in DOMAIN ev.task
    /\ ev.task.rewrite = "failed"
\* the frame leaves with the fields at these offsets as it arrived
Unrewritten(offsets) ==
    \A off \in offsets : ev.task.frame[off] = ev.task.frame_in[off]
\* no redirect was requested and the verdict lets the frame pass
PassedThrough ==
    /\ ev.ret.ok
    /\ ev.ret.val \in PassVerdicts
    /\ "action" \in DOMAIN ev.task => ev.task.action = -1

\* C34: when a checksum-replace or store-bytes primitive fails during the
\* rewrite of TCP ingress, UDP ingress or TCP egress, the classifier requests
\* no redirect, returns a pass verdict, and the frame leaves with the address
\* and port fields it arrived with.
C34_FailedRewriteUntouched ==
    /\ RewriteFailed("ingress_tcp")
          => PassedThrough /\ Unrewritten({IP_DST_OFF, TCP_DPORT_OFF})
    /\ RewriteFailed("ingress_udp")
          => PassedThrough /\ Unrewritten({IP_DST_OFF, UDP_DPORT_OFF})
    /\ RewriteFailed("egress_tcp")
          => PassedThrough /\ Unrewritten({IP_SRC_OFF, TCP_SPORT_OFF})

(***************************************************************************)
(* C35.  Ingress between the two writes of an Update.                      *)
(***************************************************************************)
\* invocation c of ingress looks up the cursor of its BackendKey, which
\* BACKENDS has and GATEWAY_INDEXES has not
MissesCursor(c) ==
    /\ Acts(c)
    /\ cpu[c].pc = "index"
    /\ cpu[c].kind \in {"ingress_tcp", "ingress_udp"}
    /\ cpu[c].backend_key \in DOMAIN BACKENDS
    /\ cpu[c].backend_key \notin DOMAIN GATEWAY_INDEXES

\* C35: when BACKENDS[k] exists and GATEWAY_INDEXES[k] is absent, the ingress
\* invocation of a new TCP connection or of a UDP datagram for k returns with
\* a pass verdict and the frame as it came, has chosen no backend, and that
\* step writes neither GATEWAY_INDEXES nor LB_CONNECTIONS.
C35_PartialUpdatePasses ==
    [][\A c \in DOMAIN cpu : MissesCursor(c) =>
          /\ ev'.kind = cpu[c].kind
          /\ Verdict(ev') \in PassVerdicts
          /\ ev'.task.frame = ev'.task.frame_in
          /\ ev'.task.backend = Nil
          /\ ~ev'.task.wrote_index
          /\ GATEWAY_INDEXES' = GATEWAY_INDEXES
          /\ LB_CONNECTIONS' = LB_CONNECTIONS]_vars
\* a datagram was passed through while the Update of its VIP had stored the
\* list and not yet the cursor
C35_Witness ==
    /\ ev.kind = "ingress_udp"
    /\ ~ev.ret.ok
    /\ ev.task.list # Nil
    /\ ev.task.backend = Nil
    /\ ev.task.backend_key \in DOMAIN BACKENDS
    /\ ev.task.backend_key \notin DOMAIN GATEWAY_INDEXES
    /\ rpc[1].pc = "reset_index"
    /\ rpc[1].key = ev.task.backend_key

(***************************************************************************)
(* C36.  Two Deletes at once.                                              *)
(***************************************************************************)
\* handler h is inside remove, past its first removal and before its return
Removing(h) ==
    /\ rpc[h].pc \in {"remove_index", "scan", "purge"}
    /\ rpc[h].op = "delete"
\* a Delete has just returned after its scan and its removals went through
Purged == ev.kind = "delete" /\ ev.status = "ok" /\ ev.task.errno = "none"

\* C36: two Deletes are never both between their first removal and their
\* return, and when a Delete returns after its scan, LB_CONNECTIONS holds no
\* mapping of its VIP.
C36_DeletesSerialised ==
    /\ \A g, h \in Handlers : Removing(g) /\ Removing(h) => g = h
    /\ Purged => \A ck \in DOMAIN LB_CONNECTIONS :
                    LB_CONNECTIONS[ck].backend_key # ev.task.key
\* a Delete is in its scan while the Delete of another VIP, received
\* meanwhile, waits for backends_map; the mappings of both VIPs exist
C36_Witness ==
    \E g, h \in Handlers :
        /\ rpc[g].pc = "purge"
        /\ rpc[h].pc = "remove_backends"
        /\ rpc[h].key # rpc[g].key
        /\ rpc[h].key \in DOMAIN BACKENDS
        /\ \E ck \in DOMAIN LB_CONNECTIONS : LB_CONNECTIONS[ck].backend_key = rpc[h].key

(***************************************************************************)
(* C37.  Dispatch after the Updates and the invocations have finished.     *)
(***************************************************************************)
\* the invocation that just returned was the first segment of a new TCP
\* connection, ran with nothing else in flight, and its VIP is published
\* with a list that is not empty
NewConnectionAtRest ==
    /\ ev.kind = "ingress_tcp"
    /\ ev.task.iso
    /\ AllIdle
    /\ "new_conn" \in DOMAIN ev.task
    /\ ev.task.new_conn
    /\ ev.task.backend_key \in DOMAIN BACKENDS
    /\ ev.task.backend_key \in DOMAIN GATEWAY_INDEXES
    /\ BACKENDS[ev.task.backend_key].backends_len >= 1

\* C37: once the Updates of a VIP and the ingress invocations interleaved
\* with them have finished, the first segment of the next new TCP connection
\* to the VIP, published with a non-empty list, is dispatched to a backend of
\* that list.
C37_DispatchNotStuck ==
    NewConnectionAtRest =>
        /\ ev.task.backend # Nil
        /\ \E i \in 1 .. BACKENDS[ev.task.backend_key].backends_len :
              BACKENDS[ev.task.backend_key].backends[i] = ev.task.backend

(***************************************************************************)
(* C38.  A removed mapping stays removed.                                  *)
(***************************************************************************)
\* invocation c, of TCP ingress or egress, read a mapping for its ClientKey
\* when it started
ReadMapping(c) ==
    /\ cpu[c].kind \in {"ingress_tcp", "egress_tcp"}
    /\ cpu[c].found # Nil

\* C38: a classifier invocation that read the mapping of its ClientKey never
\* puts the ClientKey into LB_CONNECTIONS again after the mapping has been
\* removed: a step that makes an absent ClientKey present is taken by an
\* invocation that found no mapping.
C38_NoResurrection ==
    [][\A c \in DOMAIN cpu :
          (Acts(c) /\ ReadMapping(c)) => ~Creates(cpu[c].client_key)]_vars

(***************************************************************************)
(* C39.  The order of the locks.                                           *)
(***************************************************************************)
\* the mutex handler h has to take next, by its position
WaitsFor(h) ==
    CASE rpc[h].pc \in {"insert", "remove_backends"} -> "backends_map"
      [] rpc[h].pc \in {"reset_index", "remove_index"} -> "gateway_indexes_map"
      [] rpc[h].pc = "scan" -> "tcp_conns_map"
      [] OTHER -> "none"
\* the mutexes that come after m in the order BACKENDS, GATEWAY_INDEXES,
\* LB_CONNECTIONS
LaterThan(m) ==
    CASE m = "backends_map" -> {"gateway_indexes_map", "tcp_conns_map"}
      [] m = "gateway_indexes_map" -> {"tcp_conns_map"}
      [] OTHER -> {}
LockOrder == \A h \in Handlers : \A m \in LaterThan(WaitsFor(h)) : mutex[m] # h

\* C39: no handler waits for a mutex while it holds one that comes later in
\* the order BACKENDS, GATEWAY_INDEXES, LB_CONNECTIONS, and every handler
\* that has received a request eventually returns.
C39_NoDeadlock ==
    /\ []LockOrder
    /\ \A h \in Handlers : (rpc[h].pc # "idle") ~> (rpc[h].pc = "idle")
\* an Update waits for backends_map, which a Delete holds together with
\* gateway_indexes_map
C39_Witness ==
    \E g, h \in Handlers :
        /\ rpc[h].pc = "insert"
        /\ rpc[g].pc = "scan"
        /\ mutex.backends_map = g
        /\ mutex.gateway_indexes_map = g


\* the kernel maps a program attached by the loader reads and writes: a
\* program re-attached from its pin keeps the maps it was loaded with by the
\* earlier run, a program loaded from the new object uses that object's maps
ProgramMaps(program) ==
    [i \in DOMAIN MapNames |-> loader.attached[program]]
\* the kernel maps handed to the RPC service, in the order of MapNames
ServedMaps == [i \in DOMAIN MapNames |-> loader.handles[MapNames[i]]]

\* C40: after a successful loader startup, whichever pins existed beforehand
\* and whatever load_ebpf is, the three maps handed to the RPC service are
\* the kernel maps that the attached ingress and egress programs read and
\* write.
C40_ServedMapsAreProgramMaps ==
    Served =>
        \A i \in DOMAIN ProgramNames : ProgramMaps(ProgramNames[i]) = ServedMaps

====
